---- MODULE Spec2Model ----
(***************************************************************************)
(* Verification model of the squid exporter's cache-manager client         *)
(* (internal/metrics/client.go): the request builder, the line producer,   *)
(* the three line decoders and the Get* aggregation loops.                 *)
(*                                                                         *)
(* A Go string is modelled as a sequence of one-character strings, so the  *)
(* string functions the decoders call (Index, TrimSpace, Split, Replace,   *)
(* HasSuffix, ParseFloat) are computed character by character.             *)
(* The characters of the model never include 'x', 'X', 'p' or 'P', so the  *)
(* hexadecimal forms of strconv.ParseFloat cannot occur.                   *)
(***************************************************************************)
EXTENDS Integers, Sequences, FiniteSets, TLC

(***************************************************************************)
(* Bounds of the model.                                                    *)
(***************************************************************************)
\* longest line of the exhaustive line set (every string over ShortAlphabet)
MaxShortLen == 3
\* most newline-terminated lines in one response body
MaxLines == 2
\* most caller-supplied extra header lines of a client
MaxHeaders == 1
\* most spare cells (cap - len) of the caller-supplied header slice
MaxSpare == 3
\* largest bucket size of a RateLimiter
MaxBucket == 2
\* most ticks delivered to a RateLimiter
MaxTicks == 3
\* most Get calls on a RateLimiter
MaxGets == 4
\* most Start and Stop calls on a ConfigFileMonitor
MaxCalls == 4
\* latest time, in hours, of the clock a SquidConfigFilesCollector reads
MaxNow == 2

(***************************************************************************)
(* Strings: package strings as used by client.go.                          *)
(***************************************************************************)
S_SquidObjectCache == <<"S", "q", "u", "i", "d", " ", "O", "b", "j", "e", "c", "t", " ", "C", "a", "c", "h", "e">>
S_BuildInfo == <<"B", "u", "i", "l", "d", " ", "I", "n", "f", "o">>
S_ServiceName == <<"S", "e", "r", "v", "i", "c", "e", " ", "N", "a", "m", "e">>
S_StartTime == <<"S", "t", "a", "r", "t", " ", "T", "i", "m", "e">>
S_CurrentTime == <<"C", "u", "r", "r", "e", "n", "t", " ", "T", "i", "m", "e">>
K_Squid_Object_Cache == <<"S", "q", "u", "i", "d", "_", "O", "b", "j", "e", "c", "t", "_", "C", "a", "c", "h", "e">>
K_Build_Info == <<"B", "u", "i", "l", "d", "_", "I", "n", "f", "o">>
K_Service_Name == <<"S", "e", "r", "v", "i", "c", "e", "_", "N", "a", "m", "e">>
K_Start_Time == <<"S", "t", "a", "r", "t", "_", "T", "i", "m", "e">>
K_Current_Time == <<"C", "u", "r", "r", "e", "n", "t", "_", "T", "i", "m", "e">>
K_Version == <<"_", "V", "e", "r", "s", "i", "o", "n">>
K_squid_info == <<"s", "q", "u", "i", "d", "_", "i", "n", "f", "o">>
T_5min == <<"5", "m", "i", "n", ":">>
T_60min == <<"6", "0", "m", "i", "n", ":">>
L_5min == <<"5", "m", "i", "n">>
S_infinity == <<"i", "n", "f", "i", "n", "i", "t", "y">>
S_nan == <<"n", "a", "n">>

\* unicode.IsSpace restricted to the characters of the model
WhiteSpace == {" ", "\t", "\n", "\r", "\f"}

\* strings.Index(s, ch) for a one-character ch: 0-based, -1 when absent
Index(s, ch) ==
  LET hits == {i \in 1..Len(s) : s[i] = ch}
  IN  IF hits = {} THEN -1
      ELSE (CHOOSE i \in hits : \A j \in hits : i <= j) - 1

\* the Go slice expression s[lo:hi]
Slice(s, lo, hi) == SubSeq(s, lo + 1, hi)

\* the Go slice expression s[lo:]
SliceFrom(s, lo) == SubSeq(s, lo + 1, Len(s))

\* strings.TrimSpace
TrimSpace(s) ==
  LET keep == {i \in 1..Len(s) : s[i] \notin WhiteSpace}
  IN  IF keep = {} THEN <<>>
      ELSE SubSeq(s, CHOOSE i \in keep : \A j \in keep : i <= j,
                     CHOOSE i \in keep : \A j \in keep : i >= j)

\* strings.Split(s, sep) for a one-character sep: never empty, keeps empty fields
RECURSIVE Split(_, _)
Split(s, sep) ==
  LET i == Index(s, sep)
  IN  IF i < 0 THEN <<s>>
      ELSE <<Slice(s, 0, i)>> \o Split(SliceFrom(s, i + 1), sep)

\* strings.Replace(s, old, new, -1) for a one-character old; new is a string
RECURSIVE Replace(_, _, _)
Replace(s, old, new) ==
  IF s = <<>> THEN <<>>
  ELSE (IF Head(s) = old THEN new ELSE <<Head(s)>>) \o Replace(Tail(s), old, new)

\* strings.HasSuffix
HasSuffix(s, suffix) ==
  /\ Len(s) >= Len(suffix)
  /\ SubSeq(s, Len(s) - Len(suffix) + 1, Len(s)) = suffix

(***************************************************************************)
(* float64 values and strconv.ParseFloat(s, 64).                           *)
(* A finite value is the exact decimal (-1)^neg * m * 10^e, normalised so  *)
(* that m has no trailing zero; the lines of the model hold at most nine   *)
(* significant digits, where the decimal is what ParseFloat denotes.       *)
(***************************************************************************)
DigitChars == <<"0", "1", "2", "3", "4", "5", "6", "7", "8", "9">>
UpperChars == <<"A", "B", "C", "D", "E", "F", "G", "H", "I", "J", "K", "L", "M",
                "N", "O", "P", "Q", "R", "S", "T", "U", "V", "W", "X", "Y", "Z">>
LowerChars == <<"a", "b", "c", "d", "e", "f", "g", "h", "i", "j", "k", "l", "m",
                "n", "o", "p", "q", "r", "s", "t", "u", "v", "w", "x", "y", "z">>

IsDigit(c) == \E i \in 1..10 : DigitChars[i] = c
DigitVal(c) == (CHOOSE i \in 1..10 : DigitChars[i] = c) - 1

\* strconv's lower(c) on letters
LowerChar(c) ==
  IF \E i \in 1..26 : UpperChars[i] = c
  THEN LowerChars[CHOOSE i \in 1..26 : UpperChars[i] = c]
  ELSE c

RECURSIVE Pow10(_)
Pow10(n) == IF n <= 0 THEN 1 ELSE 10 * Pow10(n - 1)

RECURSIVE NumDigits(_)
NumDigits(m) == IF m < 10 THEN 1 ELSE 1 + NumDigits(m \div 10)

RECURSIVE Normalise(_, _, _)
Normalise(neg, m, e) ==
  IF m = 0 THEN [cls |-> "fin", neg |-> neg, m |-> 0, e |-> 0]
  ELSE IF m % 10 = 0 THEN Normalise(neg, m \div 10, e + 1)
  ELSE [cls |-> "fin", neg |-> neg, m |-> m, e |-> e]

Num(n) == Normalise(FALSE, n, 0)
FloatZero == Num(0)
FloatInf(neg) == [cls |-> "inf", neg |-> neg, m |-> 0, e |-> 0]
FloatNaN == [cls |-> "nan", neg |-> FALSE, m |-> 0, e |-> 0]

\* strconv.commonPrefixLenIgnoreCase
CommonPrefixLenIgnoreCase(s, prefix) ==
  LET n == IF Len(prefix) > Len(s) THEN Len(s) ELSE Len(prefix)
      ok == {k \in 0..n : \A i \in 1..k : LowerChar(s[i]) = prefix[i]}
  IN  CHOOSE k \in ok : \A j \in ok : k >= j

\* strconv.special: the forms inf, infinity and nan
Special(s) ==
  LET none == [ok |-> FALSE, n |-> 0, val |-> FloatZero]
  IN  IF Len(s) = 0 THEN none
      ELSE LET signed == s[1] \in {"+", "-"}
               body == IF signed THEN Tail(s) ELSE s
               nsign == IF signed THEN 1 ELSE 0
           IN  IF signed \/ LowerChar(s[1]) = "i"
               THEN LET n0 == CommonPrefixLenIgnoreCase(body, S_infinity)
                        n == IF 3 < n0 /\ n0 < 8 THEN 3 ELSE n0
                    IN  IF n = 3 \/ n = 8
                        THEN [ok |-> TRUE, n |-> nsign + n, val |-> FloatInf(s[1] = "-")]
                        ELSE none
               ELSE IF LowerChar(s[1]) = "n"
               THEN IF CommonPrefixLenIgnoreCase(s, S_nan) = 3
                    THEN [ok |-> TRUE, n |-> 3, val |-> FloatNaN]
                    ELSE none
               ELSE none

\* the digit loop of strconv.readFloat from 1-based position i
RECURSIVE ScanMantissa(_, _, _, _, _, _)
ScanMantissa(s, i, sawdot, sawdigits, mant, nfrac) ==
  LET stop == [i |-> i, sawdigits |-> sawdigits, mant |-> mant, nfrac |-> nfrac]
  IN  IF i > Len(s) THEN stop
      ELSE IF s[i] = "_" THEN ScanMantissa(s, i + 1, sawdot, sawdigits, mant, nfrac)
      ELSE IF s[i] = "." THEN
        IF sawdot THEN stop ELSE ScanMantissa(s, i + 1, TRUE, sawdigits, mant, nfrac)
      ELSE IF IsDigit(s[i]) THEN
        ScanMantissa(s, i + 1, sawdot, TRUE, mant * 10 + DigitVal(s[i]),
                     IF sawdot THEN nfrac + 1 ELSE nfrac)
      ELSE stop

\* the exponent digit loop of strconv.readFloat from 1-based position i
RECURSIVE ScanExponent(_, _, _)
ScanExponent(s, i, e) ==
  IF i > Len(s) THEN [i |-> i, e |-> e]
  ELSE IF s[i] = "_" THEN ScanExponent(s, i + 1, e)
  ELSE IF IsDigit(s[i]) THEN
    ScanExponent(s, i + 1, IF e < 10000 THEN e * 10 + DigitVal(s[i]) ELSE e)
  ELSE [i |-> i, e |-> e]

\* strconv.underscoreOK for decimal text: '_' only between two digits
UnderscoreOK(s) ==
  \A i \in 1..Len(s) :
    s[i] = "_" => /\ i > 1 /\ IsDigit(s[i - 1])
                  /\ i < Len(s) /\ IsDigit(s[i + 1])

\* strconv.readFloat (decimal), after the digit loop mm and the exponent loop ee
\* (run from j1, the position after the 'e' at j0 - 1 and its sign)
ReadFloatExponent(s, neg, mm, j0, j1, ee) ==
  IF ~UnderscoreOK(SubSeq(s, 1, ee.i - 1))
  THEN [ok |-> FALSE, n |-> 0, neg |-> FALSE, mant |-> 0, exp |-> 0]
  ELSE [ok |-> TRUE, n |-> ee.i - 1, neg |-> neg, mant |-> mm.mant,
        exp |-> (IF s[j0] = "-" THEN 0 - ee.e ELSE ee.e) - mm.nfrac]

ReadFloatTail(s, neg, mm) ==
  LET bad == [ok |-> FALSE, n |-> 0, neg |-> FALSE, mant |-> 0, exp |-> 0]
  IN  IF ~mm.sawdigits THEN bad
      ELSE IF mm.i <= Len(s) /\ LowerChar(s[mm.i]) = "e"
      THEN LET j0 == mm.i + 1
               j1 == IF j0 <= Len(s) /\ s[j0] \in {"+", "-"} THEN j0 + 1 ELSE j0
           IN  IF j0 > Len(s) THEN bad
               ELSE IF j1 > Len(s) \/ ~IsDigit(s[j1]) THEN bad
               ELSE ReadFloatExponent(s, neg, mm, j0, j1, ScanExponent(s, j1, 0))
      ELSE IF ~UnderscoreOK(SubSeq(s, 1, mm.i - 1)) THEN bad
      ELSE [ok |-> TRUE, n |-> mm.i - 1, neg |-> neg,
            mant |-> mm.mant, exp |-> 0 - mm.nfrac]

\* strconv.readFloat (decimal): the number read and how many characters it took
ReadFloat(s) ==
  IF Len(s) = 0 THEN [ok |-> FALSE, n |-> 0, neg |-> FALSE, mant |-> 0, exp |-> 0]
  ELSE ReadFloatTail(s, s[1] = "-",
                     ScanMantissa(s, IF s[1] \in {"+", "-"} THEN 2 ELSE 1,
                                  FALSE, FALSE, 0, 0))

\* the magnitude m * 10^e exceeds the largest float64, 1.7976931348623157e308
\* (ParseFloat: ErrRange); m has at most nine digits
Overflows(m, e) ==
  /\ m > 0
  /\ \/ NumDigits(m) + e - 1 > 308
     \/ /\ NumDigits(m) + e - 1 = 308
        /\ m * Pow10(9 - NumDigits(m)) > 179769313

\* strconv.atof64 given what special and readFloat returned
ParseFloatOf(s, sp, rf) ==
  LET bad == [ok |-> FALSE, val |-> FloatZero]
  IN  IF sp.ok THEN (IF sp.n = Len(s) THEN [ok |-> TRUE, val |-> sp.val] ELSE bad)
      ELSE IF ~rf.ok \/ rf.n # Len(s) THEN bad
      ELSE IF Overflows(rf.mant, rf.exp) THEN bad
      ELSE IF rf.mant > 0 /\ NumDigits(rf.mant) + rf.exp - 1 < 0 - 324
      THEN [ok |-> TRUE, val |-> Normalise(rf.neg, 0, 0)]
      ELSE [ok |-> TRUE, val |-> Normalise(rf.neg, rf.mant, rf.exp)]

\* strconv.ParseFloat(s, 64): ok is "err == nil", val the float64 returned
ParseFloat(s) == ParseFloatOf(s, Special(s), ReadFloat(s))

(***************************************************************************)
(* Counter records and the three line decoders.                            *)
(* A decoder call ends in one of three ways: it returns a Counter with a   *)
(* nil error ("ok"), it returns an error ("err"), or an index expression   *)
(* is out of range and the goroutine panics ("panic").                     *)
(***************************************************************************)
Counter(key, value, labels) == [Key |-> key, Value |-> value, VarLabels |-> labels]
VarLabel(key, value) == [Key |-> key, Value |-> value]
\* the zero value Counter{}
EmptyCounter == Counter(<<>>, FloatZero, <<>>)

Returned(c) == [kind |-> "ok", c |-> c]
Failed == [kind |-> "err", c |-> EmptyCounter]
Panicked == [kind |-> "panic", c |-> EmptyCounter]

\* if i, err := strconv.ParseFloat(value, 64); err == nil { return Counter{key, i}, nil }
\* and otherwise the error at the end of the decoder; p is what ParseFloat returned
ScalarOrError(key, p) ==
  IF p.ok THEN Returned(Counter(key, p.val, <<>>)) ELSE Failed

\* slices := strings.Split(value, " "); if len(slices) > 0 { value = slices[0] }
FirstField(value, slices) == IF Len(slices) > 0 THEN slices[1] ELSE value

\* value := ""; if len(line) > at { value = strings.TrimSpace(line[at+1:]) }
ValueAfter(ln, at) == IF Len(ln) > at THEN TrimSpace(SliceFrom(ln, at + 1)) ELSE <<>>

\* decodeCounterStrings without the test len(key) > 0
DecodeCounterAt_NoKeyTest(ln, equal, key, value) ==
  ScalarOrError(key, ParseFloat(FirstField(value, Split(value, " "))))

\* decodeCounterStrings once the '=' is found at equal and the key is trimmed
DecodeCounterAt(ln, equal, key, value) ==
  IF Len(key) > 0
  THEN ScalarOrError(key, ParseFloat(FirstField(value, Split(value, " "))))
  ELSE Failed

DecodeCounterStrings(ln) ==
  IF Index(ln, "=") >= 0
  THEN DecodeCounterAt(ln, Index(ln, "="), TrimSpace(Slice(ln, 0, Index(ln, "="))),
                       ValueAfter(ln, Index(ln, "=")))
  ELSE Failed

\* the key normalisation of decodeServiceTimeStrings
ServiceTimeKey(key) == Replace(Replace(Replace(key, " ", <<"_">>), "(", <<>>), ")", <<>>)

\* decodeServiceTimeStrings on a value that holds a '%' at equalTwo
DecodeServiceTimePercent(key, value, equalTwo, keyTwo) ==
  IF Len(keyTwo) > 0
  THEN ScalarOrError(key \o <<"_">> \o keyTwo,
         ParseFloat(IF Len(value) > equalTwo
                    THEN Split(TrimSpace(SliceFrom(value, equalTwo + 1)), " ")[1]
                    ELSE value))
  ELSE ScalarOrError(key, ParseFloat(value))

\* decodeServiceTimeStrings once the ':' is found and the key is trimmed
DecodeServiceTimeAt(key0, value) ==
  IF Len(key0) > 0
  THEN IF Index(value, "%") >= 0
       THEN DecodeServiceTimePercent(ServiceTimeKey(key0), value, Index(value, "%"),
                                     TrimSpace(Slice(value, 0, Index(value, "%"))))
       ELSE ScalarOrError(ServiceTimeKey(key0), ParseFloat(value))
  ELSE Failed

DecodeServiceTimeStrings(ln) ==
  IF HasSuffix(ln, <<":", "\n">>) THEN Returned(EmptyCounter)
  ELSE IF Index(ln, ":") >= 0
  THEN DecodeServiceTimeAt(TrimSpace(Slice(ln, 0, Index(ln, ":"))),
                           ValueAfter(ln, Index(ln, ":")))
  ELSE Failed

\* the key normalisation of decodeInfoStrings
InfoKey(key0) ==
  Replace(Replace(Replace(Replace(Replace(key0, " ", <<"_">>), "(", <<>>), ")", <<>>),
                  ",", <<>>), "/", <<>>)

\* the value clean-up of decodeInfoStrings: '%' and ',' removed
StripPercentComma(v) == Replace(Replace(v, "%", <<>>), ",", <<>>)

\* the identity fields: the value becomes a label; slices is Split(value, " ")
DecodeInfoIdentity(key, value, slices) ==
  IF key = K_Squid_Object_Cache
  THEN IF Len(slices) > 0
       THEN IF Len(slices) < 2 THEN Panicked
            ELSE Returned(Counter(key \o K_Version, FloatZero,
                                  <<VarLabel(key \o K_Version, slices[2])>>))
       ELSE Returned(Counter(key \o K_Version, FloatZero,
                             <<VarLabel(key \o K_Version, value)>>))
  ELSE Returned(Counter(key, FloatZero, <<VarLabel(key, value)>>))

\* the 5min/60min shape, else the first field as a scalar
DecodeInfoValue(key, value, slices) ==
  IF /\ Len(slices) > 0
     /\ slices[1] = T_5min
     /\ Len(slices) > 2
     /\ slices[3] = T_60min
  THEN IF Len(slices) < 4 THEN Panicked
       ELSE Returned(Counter(key, FloatZero,
              << VarLabel(Replace(slices[1], ":", <<>>), StripPercentComma(slices[2])),
                 VarLabel(Replace(slices[3], ":", <<>>), StripPercentComma(slices[4])) >>))
  ELSE ScalarOrError(key, ParseFloat(StripPercentComma(FirstField(value, slices))))

\* decodeInfoStrings without the Start_Time/Current_Time return
DecodeInfoKeyed_NoDiscard(key, value, slices) ==
  IF key \in {K_Squid_Object_Cache, K_Build_Info, K_Service_Name}
  THEN DecodeInfoIdentity(key, value, slices)
  ELSE DecodeInfoValue(key, value, slices)

\* decodeInfoStrings on a line with a ':' once the key is normalised
DecodeInfoKeyed(key, value, slices) ==
  IF key \in {K_Squid_Object_Cache, K_Build_Info, K_Service_Name}
  THEN DecodeInfoIdentity(key, value, slices)
  ELSE IF key \in {K_Start_Time, K_Current_Time} THEN Returned(EmptyCounter)
  ELSE DecodeInfoValue(key, value, slices)

DecodeInfoColon(key0, value) ==
  IF Len(key0) > 0 THEN DecodeInfoKeyed(InfoKey(key0), value, Split(value, " "))
  ELSE Failed

\* decodeInfoStrings on a line without ':' ("value metricName")
DecodeInfoTrailing(lineTrimed, idx) ==
  IF idx >= 0
  THEN ScalarOrError(Replace(Replace(TrimSpace(SliceFrom(lineTrimed, idx + 1)),
                                     " ", <<"_">>), "-", <<"_">>),
                     ParseFloat(TrimSpace(Slice(lineTrimed, 0, idx))))
  ELSE Failed

DecodeInfoStrings(ln) ==
  IF HasSuffix(ln, <<":", "\n">>) THEN Returned(EmptyCounter)
  ELSE IF Index(ln, ":") >= 0
  THEN DecodeInfoColon(TrimSpace(Slice(ln, 0, Index(ln, ":"))),
                       ValueAfter(ln, Index(ln, ":")))
  ELSE DecodeInfoTrailing(TrimSpace(ln), Index(TrimSpace(ln), " "))

(***************************************************************************)
(* The loop bodies of GetCounters, GetServiceTimes and GetInfos.           *)
(* acc is the loop's state: list is the slice being built (counters,       *)
(* serviceTimes or infos) and labels is infoVarLabels.VarLabels.           *)
(* r is what the decoder returned for the line.                            *)
(***************************************************************************)
LoopState(list, labels) == [panic |-> FALSE, list |-> list, labels |-> labels]
LoopPanic(acc) == [panic |-> TRUE, list |-> acc.list, labels |-> acc.labels]

GetCountersBody(acc, r) ==
  IF r.kind = "panic" THEN LoopPanic(acc)
  ELSE IF r.kind = "err" THEN acc
  ELSE LoopState(Append(acc.list, r.c), acc.labels)

\* GetServiceTimes' loop body without the test of serviceTime.Key
GetServiceTimesBody_NoKeyTest(acc, r) ==
  IF r.kind = "panic" THEN LoopPanic(acc)
  ELSE IF r.kind = "err" THEN acc
  ELSE LoopState(Append(acc.list, r.c), acc.labels)

GetServiceTimesBody(acc, r) ==
  IF r.kind = "panic" THEN LoopPanic(acc)
  ELSE IF r.kind = "err" THEN acc
  ELSE IF r.c.Key # <<>> THEN LoopState(Append(acc.list, r.c), acc.labels)
  ELSE acc

\* the 5min branch of GetInfos dropping both halves when one does not parse
GetInfosDualWindow_BothOrNone(acc, info, p5, p60) ==
  LoopState(acc.list
              \o (IF p5.ok /\ p60.ok
                  THEN << Counter(info.Key \o <<"_">> \o info.VarLabels[1].Key, p5.val, <<>>),
                          Counter(info.Key \o <<"_">> \o info.VarLabels[2].Key, p60.val, <<>>) >>
                  ELSE <<>>),
            acc.labels)

\* the 5min branch of GetInfos; p5 and p60 are what ParseFloat returned for
\* the two label values
GetInfosDualWindow(acc, info, p5, p60) ==
  LoopState(acc.list
              \o (IF p5.ok
                  THEN <<Counter(info.Key \o <<"_">> \o info.VarLabels[1].Key, p5.val, <<>>)>>
                  ELSE <<>>)
              \o (IF p60.ok
                  THEN <<Counter(info.Key \o <<"_">> \o info.VarLabels[2].Key, p60.val, <<>>)>>
                  ELSE <<>>),
            acc.labels)

\* GetInfos' loop body appending a labelled record to infos as it is
GetInfosAggregate_KeepLabelled(acc, info) ==
  IF Len(info.VarLabels) > 0
  THEN IF info.VarLabels[1].Key = L_5min
       THEN IF Len(info.VarLabels) < 2 THEN LoopPanic(acc)
            ELSE GetInfosDualWindow(acc, info, ParseFloat(info.VarLabels[1].Value),
                                    ParseFloat(info.VarLabels[2].Value))
       ELSE LoopState(Append(acc.list, info), acc.labels)
  ELSE IF info.Key # <<>> THEN LoopState(Append(acc.list, info), acc.labels)
  ELSE acc

\* the part of GetInfos' loop body that follows a successful decode
GetInfosAggregate(acc, info) ==
  IF Len(info.VarLabels) > 0
  THEN IF info.VarLabels[1].Key = L_5min
       THEN IF Len(info.VarLabels) < 2 THEN LoopPanic(acc)
            ELSE GetInfosDualWindow(acc, info, ParseFloat(info.VarLabels[1].Value),
                                    ParseFloat(info.VarLabels[2].Value))
       ELSE LoopState(acc.list, Append(acc.labels, info.VarLabels[1]))
  ELSE IF info.Key # <<>> THEN LoopState(Append(acc.list, info), acc.labels)
  ELSE acc

GetInfosBody(acc, r) ==
  IF r.kind = "panic" THEN LoopPanic(acc)
  ELSE IF r.kind = "err" THEN acc
  ELSE GetInfosAggregate(acc, r.c)

\* what follows the loop: GetInfos appends the composite record squid_info
GetInfosFinish(acc) ==
  IF Len(acc.labels) > 0
  THEN Append(acc.list, Counter(K_squid_info, Num(1), acc.labels))
  ELSE acc.list

Endpoints == {"counters", "service_times", "info"}

\* the decoder the Get* function of an endpoint calls on a received line
Decode(endpoint, ln) ==
  IF endpoint = "counters" THEN DecodeCounterStrings(ln)
  ELSE IF endpoint = "service_times" THEN DecodeServiceTimeStrings(ln)
  ELSE DecodeInfoStrings(ln)

\* the rest of its loop body, r being what the decoder returned
LoopBody(endpoint, acc, r) ==
  IF endpoint = "counters" THEN GetCountersBody(acc, r)
  ELSE IF endpoint = "service_times" THEN GetServiceTimesBody(acc, r)
  ELSE GetInfosBody(acc, r)

LoopFinish(endpoint, acc) ==
  IF endpoint = "info" THEN GetInfosFinish(acc) ELSE acc.list

(***************************************************************************)
(* The request readFromSquid writes.  A header line is the tuple of the    *)
(* pieces the code concatenates; the empty string is the empty tuple.      *)
(***************************************************************************)
\* fmt.Sprintf(requestProtocol, endpoint)
RequestProtocol(endpoint) == <<"GET cache_object://localhost/", endpoint, " HTTP/1.0">>
HostHeader == <<"Host: localhost">>
UserAgentHeader == <<"User-Agent: squidclient/3.5.12">>
ProxyAuthorizationHeader(auth) == <<"Proxy-Authorization: Basic ", auth>>
AuthorizationHeader(auth) == <<"Authorization: Basic ", auth>>
AcceptHeader == <<"Accept: */*">>
CRLF == <<"\r\n">>

\* base64.StdEncoding.EncodeToString([]byte(login + ":" + password)) on the
\* credentials of the model
Base64LoginPassword(login, password) ==
  IF login = "user" /\ password = "pass" THEN "dXNlcjpwYXNz"
  ELSE IF login = "user" /\ password = "" THEN "dXNlcjo="
  ELSE IF login = "" /\ password = "pass" THEN "OnBhc3M="
  ELSE "Og=="

BuildBasicAuthString(login, password) ==
  IF login = "" THEN "" ELSE Base64LoginPassword(login, password)

\* A slice value: it either still aliases the client's header array (shared,
\* with its own length) or owns a private array (own).
SliceOfHeaders(len) == [shared |-> TRUE, len |-> len, own |-> <<>>]

\* append(s, xs...): hdr is the client's header array, its length the capacity.
\* The result is the array as append leaves it and the slice append returns.
GoAppend(hdr, s, xs) ==
  IF s.shared
  THEN IF s.len + Len(xs) <= Len(hdr)
       THEN [hdr |-> [i \in 1..Len(hdr) |->
                        IF i > s.len /\ i <= s.len + Len(xs) THEN xs[i - s.len] ELSE hdr[i]],
             s |-> [shared |-> TRUE, len |-> s.len + Len(xs), own |-> <<>>]]
       ELSE [hdr |-> hdr,
             s |-> [shared |-> FALSE, len |-> s.len + Len(xs),
                    own |-> SubSeq(hdr, 1, s.len) \o xs]]
  ELSE [hdr |-> hdr,
        s |-> [shared |-> FALSE, len |-> s.len + Len(xs), own |-> s.own \o xs]]

\* the elements of a slice
Elements(hdr, s) == IF s.shared THEN SubSeq(hdr, 1, s.len) ELSE s.own

\* the lines of strings.Join(rBody, "\r\n"): every element but the last is a
\* line ended by the separator, and the last element "\r\n" is the empty line
RequestLines(rBody) ==
  [i \in 1..Len(rBody) |-> IF rBody[i] = CRLF THEN <<>> ELSE rBody[i]]

(***************************************************************************)
(* bufio.Reader.ReadString('\n') on the rest of the body.                  *)
(***************************************************************************)
HasLine(data) == Index(data, "\n") >= 0
FirstLine(data) == Slice(data, 0, Index(data, "\n") + 1)
AfterFirstLine(data) == SliceFrom(data, Index(data, "\n") + 1)

(***************************************************************************)
(* State.                                                                  *)
(*  headers, headersLen   c.headers: its backing array (capacity cells)    *)
(*                        and its length                                   *)
(*  basicAuthString       c.basicAuthString                                *)
(*  call                  one record per running Get* call on the client   *)
(*  dLine, dGrammar,      a decoder applied to one line: the line, the     *)
(*  dOut, dAgg            decoder, what it returned, GetInfos' aggregation *)
(*  sc                    the SquidCollector whose Collect runs call 1     *)
(*  rl                    a RateLimiter, its refill goroutine and users    *)
(*  mon                   a ConfigFileMonitor, its loops and watched file  *)
(*  cfc                   a SquidConfigFilesCollector and its directory    *)
(***************************************************************************)
VARIABLES headers, headersLen, basicAuthString, call, dLine, dGrammar, dOut, dAgg,
          sc, rl, mon, cfc

clientVars == <<headers, headersLen, basicAuthString>>
decodeVars == <<dLine, dGrammar, dOut, dAgg>>
compVars == <<sc, rl, mon, cfc>>
vars == <<headers, headersLen, basicAuthString, call, dLine, dGrammar, dOut, dAgg,
          sc, rl, mon, cfc>>

NoError == [kind |-> "nil", code |-> 0, wrap |-> ""]
ConnectError == [kind |-> "connect", code |-> 0, wrap |-> ""]
ResponseError == [kind |-> "response", code |-> 0, wrap |-> ""]
\* fmt.Errorf("Non success code %d while fetching metrics", resp.StatusCode)
StatusError(code) == [kind |-> "status", code |-> code, wrap |-> ""]
\* fmt.Errorf("error getting <endpoint>: %v", err)
WrapError(endpoint, err) == [err EXCEPT !.wrap = endpoint]

\* a Get* call on entry
NewCall(endpoint) ==
  [ endpoint |-> endpoint,
    pc |-> "connect",
    conn |-> "none",               \* the net.Conn: none, open or closed
    connects |-> 0,                \* calls of c.ch.connect()
    rBody |-> SliceOfHeaders(0),
    sent |-> <<>>,                 \* the request lines written to conn
    status |-> 0,                  \* resp.StatusCode, 0 while there is no response
    rfs |-> [done |-> FALSE, reader |-> FALSE, err |-> NoError],
    body |-> <<>>,                 \* the response body as the upstream sent it
    stream |-> <<>>,               \* what is left of the response body
    fault |-> FALSE,               \* the body ends in an I/O error, not in EOF
    prod |-> "none",               \* readLines: none, read, send or done
    held |-> <<>>,                 \* the line readLines is sending
    closes |-> 0,                  \* close(lines) executed
    acc |-> LoopState(<<>>, <<>>),
    prevAcc |-> LoopState(<<>>, <<>>),
    consumed |-> <<>>,             \* the lines received from the channel
    last |-> Failed,               \* what the decoder returned for the last of them
    ret |-> [done |-> FALSE, records |-> <<>>, err |-> NoError] ]

(***************************************************************************)
(* readFromSquid.                                                          *)
(***************************************************************************)
ConnectOK(c) ==
  /\ call[c].pc = "connect"
  /\ call' = [call EXCEPT ![c] = [@ EXCEPT !.connects = @ + 1, !.conn = "open",
                                            !.pc = "append"]]
  /\ UNCHANGED <<clientVars, decodeVars, compVars>>

ConnectFail(c) ==
  /\ call[c].pc = "connect"
  /\ call' = [call EXCEPT ![c] = [@ EXCEPT
                !.connects = @ + 1,
                !.rfs = [done |-> TRUE, reader |-> FALSE, err |-> ConnectError],
                !.pc = "check"]]
  /\ UNCHANGED <<clientVars, decodeVars, compVars>>

\* rBody = append(...): r is the array as append leaves it and the slice it returns
Appended(c, r, pc) ==
  /\ headers' = r.hdr
  /\ call' = [call EXCEPT ![c] = [@ EXCEPT !.rBody = r.s, !.pc = pc]]

\* rBody := append(c.headers, protocol line, Host, User-Agent)
AppendProtocol(c) ==
  /\ call[c].pc = "append"
  /\ Appended(c, GoAppend(headers, SliceOfHeaders(headersLen),
                          <<RequestProtocol(call[c].endpoint), HostHeader,
                            UserAgentHeader>>), "auth")
  /\ UNCHANGED <<headersLen, basicAuthString, decodeVars, compVars>>

\* append(r.s, xs...) on the array r.hdr
AppendTo(r, xs) == GoAppend(r.hdr, r.s, xs)

\* the two appends under "if c.basicAuthString != """
AppendAuth(r, auth) ==
  IF auth # ""
  THEN AppendTo(AppendTo(r, <<ProxyAuthorizationHeader(auth)>>),
                <<AuthorizationHeader(auth)>>)
  ELSE r

\* the two authentication appends, then append(rBody, "Accept: */*", "\r\n")
AppendAuthAccept(c) ==
  /\ call[c].pc = "auth"
  /\ Appended(c, AppendTo(AppendAuth([hdr |-> headers, s |-> call[c].rBody],
                                     basicAuthString),
                          <<AcceptHeader, CRLF>>), "send")
  /\ UNCHANGED <<headersLen, basicAuthString, decodeVars, compVars>>

\* request := strings.Join(rBody, "\r\n"); fmt.Fprint(conn, request)
SendRequest(c) ==
  /\ call[c].pc = "send"
  /\ call' = [call EXCEPT ![c] = [@ EXCEPT
                !.sent = RequestLines(Elements(headers, call[c].rBody)),
                !.pc = "response"]]
  /\ UNCHANGED <<clientVars, decodeVars, compVars>>

\* http.ReadResponse fails: conn.Close(); return nil, err
ReadResponseFail(c) ==
  /\ call[c].pc = "response"
  /\ call' = [call EXCEPT ![c] = [@ EXCEPT
                !.conn = "closed",
                !.rfs = [done |-> TRUE, reader |-> FALSE, err |-> ResponseError],
                !.pc = "check"]]
  /\ UNCHANGED <<clientVars, decodeVars, compVars>>

NonSuccessCodes == {404, 503}

\* the status branch without its conn.Close()
ReadResponseStatus_NoClose(c) ==
  /\ call[c].pc = "response"
  /\ \E code \in NonSuccessCodes :
       call' = [call EXCEPT ![c] = [@ EXCEPT
                  !.status = code,
                  !.rfs = [done |-> TRUE, reader |-> FALSE, err |-> StatusError(code)],
                  !.pc = "check"]]
  /\ UNCHANGED <<clientVars, decodeVars, compVars>>

\* resp.StatusCode != 200: conn.Close(); return nil, the status error
ReadResponseStatus(c) ==
  /\ call[c].pc = "response"
  /\ \E code \in NonSuccessCodes :
       call' = [call EXCEPT ![c] = [@ EXCEPT
                  !.status = code,
                  !.conn = "closed",
                  !.rfs = [done |-> TRUE, reader |-> FALSE, err |-> StatusError(code)],
                  !.pc = "check"]]
  /\ UNCHANGED <<clientVars, decodeVars, compVars>>

\* status 200: return bufio.NewReader(resp.Body), nil; the upstream's body is
\* one of bodies
ReadResponseOK(c, bodies) ==
  /\ call[c].pc = "response"
  /\ \E b \in bodies :
       call' = [call EXCEPT ![c] = [@ EXCEPT
                  !.status = 200,
                  !.body = b.data, !.stream = b.data, !.fault = b.fault,
                  !.rfs = [done |-> TRUE, reader |-> TRUE, err |-> NoError],
                  !.pc = "check"]]
  /\ UNCHANGED <<clientVars, decodeVars, compVars>>

(***************************************************************************)
(* GetCounters, GetServiceTimes, GetInfos around readFromSquid.            *)
(***************************************************************************)
\* the Get* function going on to read lines although readFromSquid failed
GetError_Continue(c) ==
  /\ call[c].pc = "check"
  /\ call[c].rfs.err # NoError
  /\ call' = [call EXCEPT ![c] = [@ EXCEPT !.prod = "read", !.pc = "range"]]
  /\ UNCHANGED <<clientVars, decodeVars, compVars>>

\* if err != nil { return nil, fmt.Errorf(...) }
GetError(c) ==
  /\ call[c].pc = "check"
  /\ call[c].rfs.err # NoError
  /\ call' = [call EXCEPT ![c] = [@ EXCEPT
                !.ret = [done |-> TRUE, records |-> <<>>,
                         err |-> WrapError(call[c].endpoint, call[c].rfs.err)],
                !.pc = "returned"]]
  /\ UNCHANGED <<clientVars, decodeVars, compVars>>

\* lines := make(chan string); go readLines(reader, lines)
GetSpawn(c) ==
  /\ call[c].pc = "check"
  /\ call[c].rfs.err = NoError
  /\ call' = [call EXCEPT ![c] = [@ EXCEPT !.prod = "read", !.pc = "range"]]
  /\ UNCHANGED <<clientVars, decodeVars, compVars>>

\* readLines: ReadString returned a line; it blocks in lines <- line
ProducerRead(c) ==
  /\ call[c].prod = "read"
  /\ HasLine(call[c].stream)
  /\ call' = [call EXCEPT ![c] = [@ EXCEPT
                !.held = FirstLine(call[c].stream),
                !.stream = AfterFirstLine(call[c].stream),
                !.prod = "send"]]
  /\ UNCHANGED <<clientVars, decodeVars, compVars>>

\* readLines sending the unterminated rest it got with io.EOF before it closes
ProducerEOF_SendsRest(c) ==
  /\ call[c].prod = "read"
  /\ ~HasLine(call[c].stream)
  /\ ~call[c].fault
  /\ call' = [call EXCEPT ![c] =
                IF call[c].stream = <<>>
                THEN [@ EXCEPT !.closes = @ + 1, !.prod = "done"]
                ELSE [@ EXCEPT !.held = call[c].stream, !.stream = <<>>,
                               !.prod = "send"]]
  /\ UNCHANGED <<clientVars, decodeVars, compVars>>

\* readLines: ReadString returned io.EOF (with the unterminated rest): break, close
ProducerEOF(c) ==
  /\ call[c].prod = "read"
  /\ ~HasLine(call[c].stream)
  /\ ~call[c].fault
  /\ call' = [call EXCEPT ![c] = [@ EXCEPT !.stream = <<>>, !.closes = @ + 1,
                                            !.prod = "done"]]
  /\ UNCHANGED <<clientVars, decodeVars, compVars>>

\* readLines: ReadString returned another error: log, break, close
ProducerIOError(c) ==
  /\ call[c].prod = "read"
  /\ ~HasLine(call[c].stream)
  /\ call[c].fault
  /\ call' = [call EXCEPT ![c] = [@ EXCEPT !.stream = <<>>, !.closes = @ + 1,
                                            !.prod = "done"]]
  /\ UNCHANGED <<clientVars, decodeVars, compVars>>

\* one iteration of "for line := range lines": the unbuffered channel hands the
\* producer's line over and the loop body runs
Received(c, d, r) ==
  call' = [call EXCEPT ![c] = [@ EXCEPT
             !.consumed = Append(@, call[c].held),
             !.last = d,
             !.held = <<>>,
             !.prod = "read",
             !.prevAcc = call[c].acc,
             !.acc = LoopState(r.list, r.labels),
             !.pc = IF r.panic THEN "panicked" ELSE "range"]]

\* the lines a response body of the model is made of (without the newline)
BodyLines ==
  { <<"a", " ", "=", " ", "1">>,
    <<"a", ":", " ", "1">>,
    <<"a", ":">>,
    <<"(", ")", ":", " ", "1">>,
    <<"1", " ", "a", "-", "b">>,
    <<"a", " ", "b", ":", " ", "c", "%", " ", "2">>,
    S_StartTime \o <<":", " ", "b">>,
    S_CurrentTime \o <<":", " ", "b">>,
    S_ServiceName \o <<":", " ", "b">>,
    S_SquidObjectCache \o <<":", " ", "V", " ", "4">>,
    S_SquidObjectCache \o <<":", " ", "V">>,
    <<"a", ":", " ">> \o T_5min \o <<" ", "1", "%", ",", " ">> \o T_60min \o <<" ", "2", "%">>,
    <<"a", ":", " ">> \o T_5min \o <<" ", "b", "%", ",", " ">> \o T_60min \o <<" ", "2", "%">>,
    <<"a", ":", " ">> \o T_5min \o <<" ", "1", "%", ",", " ">> \o T_60min \o <<" ", "b", "%">>,
    <<"a", ":", " ">> \o T_5min \o <<" ", "1", " ">> \o T_60min }

Terminate(ln) == ln \o <<"\n">>

\* lines of SpecLive: one no decoder accepts, an identity line of info, a
\* timestamp line of info and the one-word version line
LiveLines ==
  { <<"a">>,
    S_ServiceName \o <<":", " ", "b">>,
    S_StartTime \o <<":", " ", "b">>,
    S_SquidObjectCache \o <<":", " ", "V">> }

\* Decode on the lines the bodies of the specifications are made of, each
\* line decoded once
Decoded ==
  [e \in Endpoints, ln \in {Terminate(l) : l \in BodyLines \cup LiveLines} |->
     Decode(e, ln)]

\* the decoder of the endpoint applied to the line received
DecodeLine(endpoint, ln) ==
  IF <<endpoint, ln>> \in DOMAIN Decoded THEN Decoded[endpoint, ln]
  ELSE Decode(endpoint, ln)

Iterate(c, d) ==
  \E r \in {LoopBody(call[c].endpoint, call[c].acc, d)} : Received(c, d, r)

Receive(c) ==
  /\ call[c].pc = "range"
  /\ call[c].prod = "send"
  /\ \E d \in {DecodeLine(call[c].endpoint, call[c].held)} : Iterate(c, d)
  /\ UNCHANGED <<clientVars, decodeVars, compVars>>

\* the loop ending as soon as the stream holds no further line, without
\* waiting for the channel to be closed
RangeEnd_BeforeClose(c) ==
  /\ call[c].pc = "range"
  /\ call[c].prod = "read"
  /\ ~HasLine(call[c].stream)
  /\ call' = [call EXCEPT ![c] = [@ EXCEPT
                !.ret = [done |-> TRUE,
                         records |-> LoopFinish(call[c].endpoint, call[c].acc),
                         err |-> NoError],
                !.pc = "returned"]]
  /\ UNCHANGED <<clientVars, decodeVars, compVars>>

\* the channel is closed: the loop ends and the call returns its list
RangeEnd(c) ==
  /\ call[c].pc = "range"
  /\ call[c].prod = "done"
  /\ call' = [call EXCEPT ![c] = [@ EXCEPT
                !.ret = [done |-> TRUE,
                         records |-> LoopFinish(call[c].endpoint, call[c].acc),
                         err |-> NoError],
                !.pc = "returned"]]
  /\ UNCHANGED <<clientVars, decodeVars, compVars>>

(***************************************************************************)
(* Inputs.                                                                 *)
(***************************************************************************)
SeqsUpTo(S, n) == UNION {[1..k -> S] : k \in 0..n}

RECURSIVE Concat(_)
Concat(ss) == IF ss = <<>> THEN <<>> ELSE Head(ss) \o Concat(Tail(ss))

\* an unterminated last line, which would decode if it were delivered
BodyFragments == { <<>>, <<"b", " ", "=", " ", "2">>, <<"b", ":", " ", "2">> }

Bodies(lineSet, n) ==
  { [data |-> Concat([i \in DOMAIN ls |-> Terminate(ls[i])]) \o frag, fault |-> f] :
      ls \in SeqsUpTo(lineSet, n), frag \in BodyFragments, f \in BOOLEAN }

\* the response bodies of Spec
SpecBodies == Bodies(BodyLines, MaxLines)

Credentials == { <<"", "">>, <<"user", "pass">> }
ExtraHeader == <<"X-Extra: 1">>

IdleDecode ==
  /\ dLine = <<>>
  /\ dGrammar = "none"
  /\ dOut = Failed
  /\ dAgg = LoopState(<<>>, <<>>)

(***************************************************************************)
(* SquidCollector (Collect): the up gauge and the metrics sent on ch.      *)
(***************************************************************************)
\* prometheus.NewGauge: a gauge starts at 0
NewSquidCollector == [up |-> 0, ch |-> <<>>, done |-> FALSE]

UpMetric(value) == [name |-> "squid_up", value |-> value]

\* Collect returning without a metric when GetCounters failed
SquidCollectorCollect_SilentOnError(err) ==
  IF err = NoError
  THEN [up |-> 1, ch |-> Append(sc.ch, UpMetric(1)), done |-> TRUE]
  ELSE [up |-> 0, ch |-> sc.ch, done |-> TRUE]

\* Collect after sc.client.GetCounters() returned err: set the gauge, send it
SquidCollectorCollect(err) ==
  IF err = NoError
  THEN [up |-> 1, ch |-> Append(sc.ch, UpMetric(1)), done |-> TRUE]
  ELSE [up |-> 0, ch |-> Append(sc.ch, UpMetric(0)), done |-> TRUE]

\* SquidCollector.Collect: its GetCounters call is call c, which has returned
Collect(c) ==
  /\ call[c].pc = "returned"
  /\ call[c].endpoint = "counters"
  /\ ~sc.done
  /\ sc' = SquidCollectorCollect(call[c].ret.err)
  /\ UNCHANGED <<clientVars, call, decodeVars, rl, mon, cfc>>

(***************************************************************************)
(* RateLimiter (package ratelimit).                                        *)
(*  err       what NewRateLimiter returned                                 *)
(*  size      cap(rl.tokens)                                               *)
(*  tokens    len(rl.tokens), the buffered tokens                          *)
(*  closed    rl.tokens is closed                                          *)
(*  stopped   rl.ticker.Stop() was called                                  *)
(*  pending   a tick waits in rl.ticker.C (capacity 1)                     *)
(*  refill    startRefreshTokens: "wait" in range rl.ticker.C, "select"    *)
(*            before its select, "panicked" after a send on the closed     *)
(*            channel                                                      *)
(*  stop      Stop: "none" not called, "close" before close(rl.tokens),    *)
(*            "clear" in clearChannel, "returned"                          *)
(*  ticks, added, skipped   ticks delivered, tokens refilled, ticks that   *)
(*            found the bucket full                                        *)
(*  atStop    the tokens in the bucket when Stop was called                *)
(*  results   what each Get call returned, with the limiter's state when   *)
(*            it was called                                                *)
(***************************************************************************)
\* NewRateLimiter without the loop that fills the bucket
NewRateLimiter_Empty(limit, chanSize) ==
  IF chanSize <= 0
  THEN [err |-> "ErrRateLimitSize", size |-> 0, tokens |-> 0, closed |-> FALSE,
        stopped |-> FALSE, pending |-> FALSE, refill |-> "none", stop |-> "none",
        ticks |-> 0, added |-> 0, skipped |-> 0, atStop |-> 0, results |-> <<>>]
  ELSE IF limit <= 0
  THEN [err |-> "ErrRateLimitTime", size |-> 0, tokens |-> 0, closed |-> FALSE,
        stopped |-> FALSE, pending |-> FALSE, refill |-> "none", stop |-> "none",
        ticks |-> 0, added |-> 0, skipped |-> 0, atStop |-> 0, results |-> <<>>]
  ELSE [err |-> "nil", size |-> chanSize, tokens |-> 0, closed |-> FALSE,
        stopped |-> FALSE, pending |-> FALSE, refill |-> "wait", stop |-> "none",
        ticks |-> 0, added |-> 0, skipped |-> 0, atStop |-> 0, results |-> <<>>]

\* NewRateLimiter(limit, chanSize): the limiter, or the error and no limiter
NewRateLimiter(limit, chanSize) ==
  IF chanSize <= 0
  THEN [err |-> "ErrRateLimitSize", size |-> 0, tokens |-> 0, closed |-> FALSE,
        stopped |-> FALSE, pending |-> FALSE, refill |-> "none", stop |-> "none",
        ticks |-> 0, added |-> 0, skipped |-> 0, atStop |-> 0, results |-> <<>>]
  ELSE IF limit <= 0
  THEN [err |-> "ErrRateLimitTime", size |-> 0, tokens |-> 0, closed |-> FALSE,
        stopped |-> FALSE, pending |-> FALSE, refill |-> "none", stop |-> "none",
        ticks |-> 0, added |-> 0, skipped |-> 0, atStop |-> 0, results |-> <<>>]
  ELSE [err |-> "nil", size |-> chanSize, tokens |-> chanSize, closed |-> FALSE,
        stopped |-> FALSE, pending |-> FALSE, refill |-> "wait", stop |-> "none",
        ticks |-> 0, added |-> 0, skipped |-> 0, atStop |-> 0, results |-> <<>>]

\* no RateLimiter was built
NoRateLimiter == NewRateLimiter(0, 0)

\* the runtime timer sends a tick on rl.ticker.C; a tick that finds the
\* channel full is dropped by the runtime and is no step of the model
RateTick ==
  /\ rl.err = "nil"
  /\ ~rl.stopped
  /\ ~rl.pending
  /\ rl.ticks < MaxTicks
  /\ rl' = [rl EXCEPT !.pending = TRUE, !.ticks = @ + 1]
  /\ UNCHANGED <<clientVars, call, decodeVars, sc, mon, cfc>>

\* startRefreshTokens: for range rl.ticker.C receives a tick
RefillReceive ==
  /\ rl.refill = "wait"
  /\ rl.pending
  /\ rl' = [rl EXCEPT !.pending = FALSE, !.refill = "select"]
  /\ UNCHANGED <<clientVars, call, decodeVars, sc, mon, cfc>>

\* startRefreshTokens taking the send case without a token reaching the bucket
RefillSend_Lost ==
  /\ rl.refill = "select"
  /\ ~rl.closed
  /\ rl.tokens < rl.size
  /\ rl' = [rl EXCEPT !.added = @ + 1, !.refill = "wait"]
  /\ UNCHANGED <<clientVars, call, decodeVars, sc, mon, cfc>>

\* startRefreshTokens adding a token whether or not the bucket is full
RefillSend_Overfill ==
  /\ rl.refill = "select"
  /\ ~rl.closed
  /\ rl' = [rl EXCEPT !.tokens = @ + 1, !.added = @ + 1, !.refill = "wait"]
  /\ UNCHANGED <<clientVars, call, decodeVars, sc, mon, cfc>>

\* startRefreshTokens: case rl.tokens <- struct{}{}
RefillSend ==
  /\ rl.refill = "select"
  /\ ~rl.closed
  /\ rl.tokens < rl.size
  /\ rl' = [rl EXCEPT !.tokens = @ + 1, !.added = @ + 1, !.refill = "wait"]
  /\ UNCHANGED <<clientVars, call, decodeVars, sc, mon, cfc>>

\* startRefreshTokens: default, the bucket is full
RefillDefault ==
  /\ rl.refill = "select"
  /\ ~rl.closed
  /\ rl.tokens = rl.size
  /\ rl' = [rl EXCEPT !.skipped = @ + 1, !.refill = "wait"]
  /\ UNCHANGED <<clientVars, call, decodeVars, sc, mon, cfc>>

\* startRefreshTokens: the send case on the closed channel panics
RefillPanic ==
  /\ rl.refill = "select"
  /\ rl.closed
  /\ rl' = [rl EXCEPT !.refill = "panicked"]
  /\ UNCHANGED <<clientVars, call, decodeVars, sc, mon, cfc>>

\* what a Get call returned and the state it was called in
GetResult(ret) ==
  [ret |-> ret, stop |-> rl.stop, closed |-> rl.closed, ticks |-> rl.ticks,
   added |-> rl.added]

\* Get returning nil on a closed and drained channel
RateLimiterGet_IgnoreOk ==
  IF rl.tokens > 0
  THEN [rl EXCEPT !.tokens = @ - 1, !.results = Append(@, GetResult("nil"))]
  ELSE IF rl.closed
  THEN [rl EXCEPT !.results = Append(@, GetResult("nil"))]
  ELSE [rl EXCEPT !.results = Append(@, GetResult("ErrRateLimited"))]

\* Get: receive a token (a closed channel still hands out what it buffers,
\* then reports !ok), default when the open channel is empty
RateLimiterGet ==
  IF rl.tokens > 0
  THEN [rl EXCEPT !.tokens = @ - 1, !.results = Append(@, GetResult("nil"))]
  ELSE [rl EXCEPT !.results = Append(@, GetResult("ErrRateLimited"))]

Get ==
  /\ rl.err = "nil"
  /\ rl.refill # "panicked"
  /\ Len(rl.results) < MaxGets
  /\ rl' = RateLimiterGet
  /\ UNCHANGED <<clientVars, call, decodeVars, sc, mon, cfc>>

\* Stop: rl.ticker.Stop()
StopTicker ==
  /\ rl.err = "nil"
  /\ rl.refill # "panicked"
  /\ rl.stop = "none"
  /\ rl' = [rl EXCEPT !.stopped = TRUE, !.stop = "close", !.atStop = rl.tokens]
  /\ UNCHANGED <<clientVars, call, decodeVars, sc, mon, cfc>>

\* Stop: close(rl.tokens)
StopClose ==
  /\ rl.stop = "close"
  /\ rl.refill # "panicked"
  /\ rl' = [rl EXCEPT !.closed = TRUE, !.stop = "clear"]
  /\ UNCHANGED <<clientVars, call, decodeVars, sc, mon, cfc>>

\* Stop: clearChannel receives one buffered token
StopClearOne ==
  /\ rl.stop = "clear"
  /\ rl.refill # "panicked"
  /\ rl.tokens > 0
  /\ rl' = [rl EXCEPT !.tokens = @ - 1]
  /\ UNCHANGED <<clientVars, call, decodeVars, sc, mon, cfc>>

\* Stop: clearChannel finds the closed channel empty (!ok) and Stop returns
StopReturn ==
  /\ rl.stop = "clear"
  /\ rl.refill # "panicked"
  /\ rl.tokens = 0
  /\ rl' = [rl EXCEPT !.stop = "returned"]
  /\ UNCHANGED <<clientVars, call, decodeVars, sc, mon, cfc>>

(***************************************************************************)
(* ConfigFileMonitor.                                                      *)
(*  running     m.running                                                  *)
(*  stopClosed  m.stopChannel is closed                                    *)
(*  refresh     len(m.refreshChannel), capacity 1                          *)
(*  rec         m.lastModTime and m.lastSize                               *)
(*  loop        the monitorLoop goroutines started so far: "none" not      *)
(*              started, "init" before updateFileState, "select" in the    *)
(*              loop's select, "exited"                                    *)
(*  started     how many of them were started                              *)
(*  file        the watched file: what os.Stat returns for m.configPath    *)
(*  calls       Start and Stop calls made                                  *)
(*  last        the last call and m.running, stopClosed, started before it *)
(*  tick        the last tick a loop handled: the file, rec and refresh    *)
(*              before it and rec and refresh after it                     *)
(*  panicked    a call closed the closed stop channel                      *)
(***************************************************************************)
\* os.Stat fails
StatError == [ok |-> FALSE, mod |-> 0, size |-> 0]

\* what os.Stat can return for the watched file
FileStates ==
  {StatError} \cup {[ok |-> TRUE, mod |-> t, size |-> n] : t \in 1..2, n \in 0..1}

\* the zero values of lastModTime and lastSize
NoFileState == [mod |-> 0, size |-> 0]

NoTick == [seen |-> FALSE, file |-> StatError, recBefore |-> NoFileState,
           recAfter |-> NoFileState, refreshBefore |-> 0, refreshAfter |-> 0]

MonitorSnapshot(m) ==
  [running |-> m.running, stopClosed |-> m.stopClosed, started |-> m.started]

NewConfigFileMonitor(file) ==
  [running |-> FALSE, stopClosed |-> FALSE, refresh |-> 0, rec |-> NoFileState,
   loop |-> <<"none", "none">>, started |-> 0, file |-> file, calls |-> 0,
   last |-> [op |-> "New",
             before |-> [running |-> FALSE, stopClosed |-> FALSE, started |-> 0]],
   tick |-> NoTick, panicked |-> FALSE]

\* Start(interval)
MonitorStart(m) ==
  IF m.running
  THEN [m EXCEPT !.calls = @ + 1,
                 !.last = [op |-> "Start", before |-> MonitorSnapshot(m)]]
  ELSE [m EXCEPT !.calls = @ + 1,
                 !.last = [op |-> "Start", before |-> MonitorSnapshot(m)],
                 !.running = TRUE,
                 !.loop[m.started + 1] = "init",
                 !.started = @ + 1]

\* Stop(): close(m.stopChannel) panics when the channel is closed already
MonitorStop(m) ==
  IF ~m.running
  THEN [m EXCEPT !.calls = @ + 1,
                 !.last = [op |-> "Stop", before |-> MonitorSnapshot(m)]]
  ELSE IF m.stopClosed
  THEN [m EXCEPT !.calls = @ + 1,
                 !.last = [op |-> "Stop", before |-> MonitorSnapshot(m)],
                 !.panicked = TRUE]
  ELSE [m EXCEPT !.calls = @ + 1,
                 !.last = [op |-> "Stop", before |-> MonitorSnapshot(m)],
                 !.stopClosed = TRUE,
                 !.running = FALSE]

\* updateFileState: record the file's modification time and size if it can
\* be stat'ed
UpdateFileState(rec, file) ==
  IF file.ok THEN [mod |-> file.mod, size |-> file.size] ELSE rec

\* checkFileChanged comparing the modification time only
CheckFileChanged_ModTimeOnly(rec, file) ==
  IF ~file.ok THEN [changed |-> FALSE, rec |-> rec]
  ELSE IF file.mod # rec.mod
  THEN [changed |-> TRUE, rec |-> [mod |-> file.mod, size |-> file.size]]
  ELSE [changed |-> FALSE, rec |-> rec]

\* checkFileChanged: what it returns and the state it records
CheckFileChanged(rec, file) ==
  IF ~file.ok THEN [changed |-> FALSE, rec |-> rec]
  ELSE IF file.mod # rec.mod \/ file.size # rec.size
  THEN [changed |-> TRUE, rec |-> [mod |-> file.mod, size |-> file.size]]
  ELSE [changed |-> FALSE, rec |-> rec]

Start ==
  /\ ~mon.panicked
  /\ mon.calls < MaxCalls
  /\ mon.running \/ mon.started < Len(mon.loop)
  /\ mon' = MonitorStart(mon)
  /\ UNCHANGED <<clientVars, call, decodeVars, sc, rl, cfc>>

Stop ==
  /\ ~mon.panicked
  /\ mon.calls < MaxCalls
  /\ mon' = MonitorStop(mon)
  /\ UNCHANGED <<clientVars, call, decodeVars, sc, rl, cfc>>

\* monitorLoop: ticker := time.NewTicker(interval); m.updateFileState()
LoopInit(i) ==
  /\ ~mon.panicked
  /\ mon.loop[i] = "init"
  /\ mon' = [mon EXCEPT !.loop[i] = "select",
                         !.rec = UpdateFileState(mon.rec, mon.file)]
  /\ UNCHANGED <<clientVars, call, decodeVars, sc, rl, cfc>>

\* the tick of a loop once checkFileChanged returned r: the non-blocking send
Ticked(i, r) ==
  mon' = [mon EXCEPT
            !.rec = r.rec,
            !.refresh = IF r.changed THEN 1 ELSE @,
            !.tick = [seen |-> TRUE, file |-> mon.file, recBefore |-> mon.rec,
                      recAfter |-> r.rec, refreshBefore |-> mon.refresh,
                      refreshAfter |-> IF r.changed THEN 1 ELSE mon.refresh]]

\* monitorLoop: case <-ticker.C
LoopTick(i) ==
  /\ ~mon.panicked
  /\ mon.loop[i] = "select"
  /\ Ticked(i, CheckFileChanged(mon.rec, mon.file))
  /\ UNCHANGED <<clientVars, call, decodeVars, sc, rl, cfc>>

\* monitorLoop: case <-m.stopChannel: return
LoopExit(i) ==
  /\ ~mon.panicked
  /\ mon.loop[i] = "select"
  /\ mon.stopClosed
  /\ mon' = [mon EXCEPT !.loop[i] = "exited"]
  /\ UNCHANGED <<clientVars, call, decodeVars, sc, rl, cfc>>

\* the user of GetRefreshChannel() receives the notification
RefreshReceive ==
  /\ ~mon.panicked
  /\ mon.refresh = 1
  /\ mon' = [mon EXCEPT !.refresh = 0]
  /\ UNCHANGED <<clientVars, call, decodeVars, sc, rl, cfc>>

\* the watched file is written, removed or made unreadable
FileChange ==
  /\ ~mon.panicked
  /\ \E f \in FileStates \ {mon.file} : mon' = [mon EXCEPT !.file = f]
  /\ UNCHANGED <<clientVars, call, decodeVars, sc, rl, cfc>>

(***************************************************************************)
(* SquidConfigFilesCollector.                                              *)
(*  dir           the directory c.configDir names: "missing", "unreadable" *)
(*                or "ok" with the entries it holds                        *)
(*  now           time.Now(), in hours                                     *)
(*  filesCount, totalSize, lastScanTime, scanSuccess   the gauges          *)
(*  ch            the metrics the last Collect sent, in order              *)
(*  collected     Collect has run                                          *)
(*  scanned       the directory as the last Collect found it               *)
(***************************************************************************)
S_none == <<"n", "o", "n", "e">>

\* the files the directory can hold, in the lexical order Walk visits them;
\* ok = FALSE: os.Lstat fails on the entry
ConfigFiles ==
  << [name |-> <<"a", ".", "c", "o", "n", "f">>, size |-> 2, mod |-> 0, ok |-> TRUE],
     [name |-> <<"l", "o", "s", "t">>, size |-> 0, mod |-> 0, ok |-> FALSE],
     [name |-> <<"m", "i", "m", "e">>, size |-> 1, mod |-> 1, ok |-> TRUE],
     [name |-> <<"s", ".", "c", "o", "n", "f">>, size |-> 3, mod |-> 2, ok |-> TRUE] >>

DirStates ==
  {[state |-> "missing", entries |-> {}], [state |-> "unreadable", entries |-> {}]}
    \cup {[state |-> "ok", entries |-> e] : e \in SUBSET DOMAIN ConfigFiles}

\* filepath.Ext of a file name: the suffix from the last dot
FilepathExt(name) ==
  LET dots == {i \in 1..Len(name) : name[i] = "."}
  IN  IF dots = {} THEN <<>>
      ELSE SubSeq(name, CHOOSE i \in dots : \A j \in dots : j <= i, Len(name))

\* strings.TrimPrefix
TrimPrefix(s, prefix) ==
  IF Len(s) >= Len(prefix) /\ SubSeq(s, 1, Len(prefix)) = prefix
  THEN SliceFrom(s, Len(prefix))
  ELSE s

\* the callback scanConfigDirectory gives to filepath.Walk: the files so far
\* and the error it returns
WalkFn(files, isRoot, f, err) ==
  IF err THEN [files |-> files, ret |-> "nil"]
  ELSE IF isRoot THEN [files |-> files, ret |-> "nil"]
  ELSE [files |-> Append(files, [name |-> f.name, size |-> f.size, mod |-> f.mod,
                                 ext |-> TrimPrefix(FilepathExt(f.name), <<".">>)]),
        ret |-> "nil"]

\* filepath.Walk over the entries of a readable directory from entry i on
RECURSIVE WalkEntries(_, _, _)
WalkEntries(files, entries, i) ==
  IF i > Len(ConfigFiles) THEN [files |-> files, ret |-> "nil"]
  ELSE IF i \notin entries THEN WalkEntries(files, entries, i + 1)
  ELSE LET r == WalkFn(files, FALSE, ConfigFiles[i], ~ConfigFiles[i].ok)
       IN  IF r.ret # "nil" THEN r ELSE WalkEntries(r.files, entries, i + 1)

\* filepath.Walk(c.configDir, fn): os.Lstat of the root, fn on the root, the
\* read of the directory, fn on its entries
FilepathWalk(dir) ==
  IF dir.state = "missing" THEN WalkFn(<<>>, TRUE, ConfigFiles[1], TRUE)
  ELSE LET r == WalkFn(<<>>, TRUE, ConfigFiles[1], FALSE)
       IN  IF r.ret # "nil" THEN r
           ELSE IF dir.state = "unreadable" THEN WalkFn(r.files, TRUE, ConfigFiles[1], TRUE)
           ELSE WalkEntries(r.files, dir.entries, 1)

\* scanConfigDirectory
ScanConfigDirectory(dir) ==
  IF FilepathWalk(dir).ret # "nil"
  THEN [files |-> <<>>, err |-> FilepathWalk(dir).ret]
  ELSE [files |-> FilepathWalk(dir).files, err |-> "nil"]

Metric(name, value, label) == [name |-> name, value |-> value, label |-> label]

\* Collect: the key a file is counted under in extensionCount
ExtensionKey(file) == IF file.ext # <<>> THEN file.ext ELSE S_none

\* Collect: extensionCount after the loop over the files
ExtensionCount(files) ==
  [e \in {ExtensionKey(files[i]) : i \in 1..Len(files)} |->
     Cardinality({i \in 1..Len(files) : ExtensionKey(files[i]) = e})]

\* the orders in which a range over the map can visit its keys
MapOrders(m) ==
  {o \in [1..Cardinality(DOMAIN m) -> DOMAIN m] :
     \A i, j \in DOMAIN o : o[i] = o[j] => i = j}

RECURSIVE TotalSize(_)
TotalSize(files) ==
  IF files = <<>> THEN 0 ELSE Head(files).size + TotalSize(Tail(files))

\* Collect: files changed within the last hour
RecentlyChangedCount(files, now) ==
  Cardinality({i \in 1..Len(files) : now - files[i].mod <= 1})

NewSquidConfigFilesCollector(dir) ==
  [dir |-> dir, now |-> 0, filesCount |-> 0, totalSize |-> 0, lastScanTime |-> 0,
   scanSuccess |-> 0, ch |-> <<>>, collected |-> FALSE, scanned |-> dir]

\* Collect, given what scanConfigDirectory returned and the order in which
\* the range over extensionCount visits its keys
SquidConfigFilesCollect(c, scan, order) ==
  IF scan.err # "nil"
  THEN [c EXCEPT !.scanSuccess = 0,
                 !.ch = <<Metric("squid_config_scan_success", 0, <<>>)>>,
                 !.collected = TRUE,
                 !.scanned = c.dir]
  ELSE [c EXCEPT
          !.scanSuccess = 1,
          !.lastScanTime = c.now,
          !.filesCount = Len(scan.files),
          !.totalSize = TotalSize(scan.files),
          !.ch = [i \in 1..Len(scan.files) |->
                    Metric("squid_config_file_info", scan.files[i].size, scan.files[i].name)]
                 \o << Metric("squid_config_files_count", Len(scan.files), <<>>),
                       Metric("squid_config_files_total_size_bytes", TotalSize(scan.files), <<>>),
                       Metric("squid_config_last_scan_timestamp", c.now, <<>>),
                       Metric("squid_config_scan_success", 1, <<>>) >>
                 \o [i \in 1..Len(order) |->
                       Metric("squid_config_file_types_count",
                              ExtensionCount(scan.files)[order[i]], order[i])]
                 \o << Metric("squid_config_files_recently_changed",
                              RecentlyChangedCount(scan.files, c.now), <<>>) >>,
          !.collected = TRUE,
          !.scanned = c.dir]

ConfigFilesCollect ==
  /\ \E order \in MapOrders(ExtensionCount(ScanConfigDirectory(cfc.dir).files)) :
       cfc' = SquidConfigFilesCollect(cfc, ScanConfigDirectory(cfc.dir), order)
  /\ UNCHANGED <<clientVars, call, decodeVars, sc, rl, mon>>

\* files are added to or removed from the directory, or the directory is
\* removed or made unreadable
DirChange ==
  /\ \E d \in DirStates \ {cfc.dir} : cfc' = [cfc EXCEPT !.dir = d]
  /\ UNCHANGED <<clientVars, call, decodeVars, sc, rl, mon>>

\* an hour passes
ClockTick ==
  /\ cfc.now < MaxNow
  /\ cfc' = [cfc EXCEPT !.now = @ + 1]
  /\ UNCHANGED <<clientVars, call, decodeVars, sc, rl, mon>>

IdleComponents ==
  /\ sc = NewSquidCollector
  /\ rl = NoRateLimiter
  /\ mon = NewConfigFileMonitor(StatError)
  /\ cfc = NewSquidConfigFilesCollector([state |-> "missing", entries |-> {}])

(***************************************************************************)
(* Spec: one Get* call on a client built as the exporter builds it         *)
(* (Headers: []string{}), over every body of up to MaxLines lines.         *)
(***************************************************************************)
Init ==
  /\ headers = <<>>
  /\ headersLen = 0
  /\ basicAuthString \in {BuildBasicAuthString(cr[1], cr[2]) : cr \in Credentials}
  /\ \E e \in Endpoints : call = [c \in {1} |-> NewCall(e)]
  /\ IdleDecode
  /\ IdleComponents

Next ==
  \E c \in {1} :
    \/ ConnectOK(c)
    \/ ConnectFail(c)
    \/ AppendProtocol(c)
    \/ AppendAuthAccept(c)
    \/ SendRequest(c)
    \/ ReadResponseFail(c)
    \/ ReadResponseStatus(c)
    \/ ReadResponseOK(c, SpecBodies)
    \/ GetError(c)
    \/ GetSpawn(c)
    \/ ProducerRead(c)
    \/ ProducerEOF(c)
    \/ ProducerIOError(c)
    \/ Receive(c)
    \/ RangeEnd(c)
    \/ Collect(c)

Spec == Init /\ [][Next]_vars

(***************************************************************************)
(* SpecLive: one Get* call over a few bodies, with the Go scheduler's      *)
(* guarantee that a goroutine which can take a step takes one: the         *)
(* goroutine running the Get* call (and the Collect above it) and the      *)
(* readLines goroutine it starts.  The upstream answers: a connect, a      *)
(* response and a read of the body each come back.                         *)
(***************************************************************************)
\* the response bodies of SpecLive
LiveBodies == Bodies(LiveLines, MaxLines)

\* the steps of the readLines goroutine of call c
ReadLines(c) ==
  \/ ProducerRead(c)
  \/ ProducerEOF(c)
  \/ ProducerIOError(c)

\* the steps of call c up to its loop, and the Collect after its return
Request(c) ==
  \/ ConnectOK(c)
  \/ ConnectFail(c)
  \/ AppendProtocol(c)
  \/ AppendAuthAccept(c)
  \/ SendRequest(c)
  \/ ReadResponseFail(c)
  \/ ReadResponseStatus(c)
  \/ ReadResponseOK(c, LiveBodies)
  \/ GetError(c)
  \/ GetSpawn(c)
  \/ Collect(c)

\* the steps of "for line := range lines" of call c
RangeLines(c) == Receive(c) \/ RangeEnd(c)

\* the goroutine of the call takes the step it is at, and so does readLines
Scheduling ==
  /\ WF_vars(Request(1))
  /\ WF_vars(RangeLines(1))
  /\ WF_vars(ReadLines(1))

NextLive == Request(1) \/ RangeLines(1) \/ ReadLines(1)

SpecLive == Init /\ [][NextLive]_vars /\ Scheduling

(***************************************************************************)
(* SpecConc: two concurrent Get* calls on one client whose header slice    *)
(* the caller supplied (any length up to MaxHeaders, any spare capacity up *)
(* to MaxSpare), over short bodies.                                        *)
(***************************************************************************)
ConcBodies ==
  { [data |-> <<>>, fault |-> FALSE],
    [data |-> <<"a", " ", "=", " ", "1", "\n">>, fault |-> TRUE] }

InitConc ==
  /\ \E n \in 0..MaxHeaders, spare \in 0..MaxSpare :
       /\ headersLen = n
       /\ headers = [i \in 1..(n + spare) |-> IF i <= n THEN ExtraHeader ELSE <<>>]
  /\ basicAuthString \in {BuildBasicAuthString(cr[1], cr[2]) : cr \in Credentials}
  /\ \E e1 \in Endpoints, e2 \in Endpoints :
       call = [c \in {1, 2} |-> IF c = 1 THEN NewCall(e1) ELSE NewCall(e2)]
  /\ IdleDecode
  /\ IdleComponents

NextConc ==
  \E c \in {1, 2} :
    \/ ConnectOK(c)
    \/ ConnectFail(c)
    \/ AppendProtocol(c)
    \/ AppendAuthAccept(c)
    \/ SendRequest(c)
    \/ ReadResponseFail(c)
    \/ ReadResponseStatus(c)
    \/ ReadResponseOK(c, ConcBodies)
    \/ GetError(c)
    \/ GetSpawn(c)
    \/ ProducerRead(c)
    \/ ProducerEOF(c)
    \/ ProducerIOError(c)
    \/ Receive(c)
    \/ RangeEnd(c)

SpecConc == InitConc /\ [][NextConc]_vars

(***************************************************************************)
(* SpecDecode: each decoder applied to one line, and GetInfos' aggregation *)
(* applied to what decodeInfoStrings returned.                             *)
(***************************************************************************)
ShortAlphabet == {"a", "1", " ", ":", "=", "%", "(", "\n"}
ShortLines == SeqsUpTo(ShortAlphabet, MaxShortLen)

SampleKeys ==
  { <<>>, <<"a", " ", "b">>, <<"(", ")">>, <<"a", "/", "b", ",">>,
    S_SquidObjectCache, S_BuildInfo, S_ServiceName, S_StartTime, S_CurrentTime }

SampleSeparators == { <<":">>, <<":", "\t">>, <<" ", "=", " ">>, <<" ">> }

SampleValues ==
  { <<>>, <<"V">>, <<"V", " ", "4", ".", "1", "0">>,
    <<"1", "0", "0", "0">>, <<"1", "2", "3", ".", "4", "5">>,
    <<"1", "0", " ", "K", "B">>, <<"5", "%", " ", "0", ".", "1">>,
    <<"I", "n", "f">>, <<"1", "e", "3", "0", "9">>, <<"1", ",", "0", "%">>,
    T_5min \o <<" ", "8", "5", ".", "2", "%", ",", " ">> \o T_60min \o <<" ", "8", "7", ".", "5", "%">>,
    T_5min \o <<" ", "b", "%", ",", " ">> \o T_60min \o <<" ", "2", "%">>,
    T_5min \o <<" ", "1", " ">> \o T_60min,
    T_5min \o <<" ", "1">> }

SampleLines ==
  { k \o sep \o v \o t :
      k \in SampleKeys, sep \in SampleSeparators, v \in SampleValues,
      t \in {<<>>, <<"\n">>} }

DecodeLines == ShortLines \cup SampleLines

InitDecode ==
  /\ headers = <<>>
  /\ headersLen = 0
  /\ basicAuthString = ""
  /\ call = <<>>
  /\ dLine \in DecodeLines
  /\ dGrammar = "none"
  /\ dOut = Failed
  /\ dAgg = LoopState(<<>>, <<>>)
  /\ IdleComponents

DecodeCounter ==
  /\ dGrammar = "none"
  /\ dGrammar' = "counters"
  /\ dOut' = DecodeCounterStrings(dLine)
  /\ UNCHANGED <<clientVars, call, dLine, dAgg, compVars>>

DecodeServiceTime ==
  /\ dGrammar = "none"
  /\ dGrammar' = "service_times"
  /\ dOut' = DecodeServiceTimeStrings(dLine)
  /\ UNCHANGED <<clientVars, call, dLine, dAgg, compVars>>

DecodeInfo ==
  /\ dGrammar = "none"
  /\ dGrammar' = "info"
  /\ dOut' = DecodeInfoStrings(dLine)
  /\ UNCHANGED <<clientVars, call, dLine, dAgg, compVars>>

\* GetInfos' loop body after err == nil, on a fresh infos and infoVarLabels
AggregateInfo ==
  /\ dGrammar = "info"
  /\ dOut.kind = "ok"
  /\ dGrammar' = "info_aggregated"
  /\ dAgg' = GetInfosAggregate(LoopState(<<>>, <<>>), dOut.c)
  /\ UNCHANGED <<clientVars, call, dLine, dOut, compVars>>

NextDecode == DecodeCounter \/ DecodeServiceTime \/ DecodeInfo \/ AggregateInfo

SpecDecode == InitDecode /\ [][NextDecode]_vars

(***************************************************************************)
(* SpecRate: a RateLimiter of any bucket size up to MaxBucket (and the     *)
(* constructor's rejected arguments), its ticker, its refill goroutine,    *)
(* Get calls and one Stop call, interleaved.  A panic ends the process.    *)
(***************************************************************************)
InitRate ==
  /\ headers = <<>>
  /\ headersLen = 0
  /\ basicAuthString = ""
  /\ call = <<>>
  /\ IdleDecode
  /\ sc = NewSquidCollector
  /\ mon = NewConfigFileMonitor(StatError)
  /\ cfc = NewSquidConfigFilesCollector([state |-> "missing", entries |-> {}])
  /\ \E limit \in {0, 1}, chanSize \in 0..MaxBucket : rl = NewRateLimiter(limit, chanSize)

NextRate ==
  \/ RateTick
  \/ RefillReceive
  \/ RefillSend
  \/ RefillDefault
  \/ RefillPanic
  \/ Get
  \/ StopTicker
  \/ StopClose
  \/ StopClearOne
  \/ StopReturn

SpecRate == InitRate /\ [][NextRate]_vars

(***************************************************************************)
(* SpecMon: one ConfigFileMonitor, up to MaxCalls Start and Stop calls     *)
(* made one after the other, the monitor loops they start, the user of the *)
(* refresh channel and the watched file changing underneath.               *)
(***************************************************************************)
InitMon ==
  /\ headers = <<>>
  /\ headersLen = 0
  /\ basicAuthString = ""
  /\ call = <<>>
  /\ IdleDecode
  /\ sc = NewSquidCollector
  /\ rl = NoRateLimiter
  /\ cfc = NewSquidConfigFilesCollector([state |-> "missing", entries |-> {}])
  /\ \E f \in FileStates : mon = NewConfigFileMonitor(f)

NextMon ==
  \/ Start
  \/ Stop
  \/ \E i \in {1, 2} : LoopInit(i)
  \/ \E i \in {1, 2} : LoopTick(i)
  \/ \E i \in {1, 2} : LoopExit(i)
  \/ RefreshReceive
  \/ FileChange

SpecMon == InitMon /\ [][NextMon]_vars

(***************************************************************************)
(* SpecScan: one SquidConfigFilesCollector collected again and again while *)
(* its directory changes and time passes.                                  *)
(***************************************************************************)
InitScan ==
  /\ headers = <<>>
  /\ headersLen = 0
  /\ basicAuthString = ""
  /\ call = <<>>
  /\ IdleDecode
  /\ sc = NewSquidCollector
  /\ rl = NoRateLimiter
  /\ mon = NewConfigFileMonitor(StatError)
  /\ \E d \in DirStates : cfc = NewSquidConfigFilesCollector(d)

NextScan ==
  \/ ConfigFilesCollect
  \/ DirChange
  \/ ClockTick

SpecScan == InitScan /\ [][NextScan]_vars

(***************************************************************************)
(* Properties.                                                             *)
(***************************************************************************)
LastConsumed(c) == call[c].consumed[Len(call[c].consumed)]

\* C1: once the upstream answered 200, a Get* call returns a nil error: no
\* line of the body keeps the call from returning (a call that panicked in
\* its loop never returns), and what it returns is the list its loop built.
C1_SuccessReturnsNilError ==
  \A c \in DOMAIN call :
    call[c].status = 200 =>
      /\ call[c].pc # "panicked"
      /\ call[c].ret.done => call[c].ret.err = NoError

\* C2: for every line, each of the three decoders returns a record or an
\* error, and GetInfos' aggregation of a decoded record completes: none of
\* them panics.
C2_DecodersNeverPanic ==
  /\ dOut.kind # "panic"
  /\ ~dAgg.panic

\* C3: when the upstream answers with a status other than 200, readFromSquid
\* returns the error carrying that status code with the connection closed,
\* hands out no reader, and no line producer runs for the call.
C3_StatusErrorClosesConnection ==
  \A c \in DOMAIN call :
    (call[c].status # 0 /\ call[c].status # 200) =>
      /\ call[c].rfs.done
      /\ call[c].rfs.err = StatusError(call[c].status)
      /\ ~call[c].rfs.reader
      /\ call[c].conn = "closed"
      /\ call[c].prod = "none"
      /\ call[c].consumed = <<>>

\* a call returned after the upstream answered 503
C3_Witness ==
  \E c \in DOMAIN call :
    /\ call[c].status = 503
    /\ call[c].ret.done
    /\ call[c].conn = "closed"

\* C4: every connection a Get* call opened is closed when the call returns.
C4_ConnectionClosedAtReturn ==
  \A c \in DOMAIN call : call[c].ret.done => call[c].conn # "open"

\* C5: a Get* call calls connect exactly once, and when connect, the read of
\* the response or the status check fails it returns no records and a
\* non-nil error, having started no producer and decoded no line.
C5_ConnectOnceFailFast ==
  \A c \in DOMAIN call :
    /\ call[c].connects = (IF call[c].pc = "connect" THEN 0 ELSE 1)
    /\ (call[c].rfs.done /\ call[c].rfs.err # NoError) =>
         /\ call[c].prod = "none"
         /\ call[c].consumed = <<>>
         /\ call[c].acc = LoopState(<<>>, <<>>)
         /\ call[c].pc \in {"check", "returned"}
         /\ call[c].ret.done =>
              /\ call[c].ret.records = <<>>
              /\ call[c].ret.err # NoError
              /\ call[c].ret.err = WrapError(call[c].endpoint, call[c].rfs.err)

\* a call returned after connect failed, and one after the response could
\* not be read or had a status other than 200
C5_Witness ==
  \E c \in DOMAIN call :
    /\ call[c].ret.done
    /\ call[c].ret.err.kind \in {"connect", "response", "status"}
    /\ call[c].connects = 1

\* the request in the order of the specification
ClaimedRequest(c) ==
  <<RequestProtocol(call[c].endpoint), HostHeader, UserAgentHeader>>
    \o SubSeq(headers, 1, headersLen)
    \o (IF basicAuthString # ""
        THEN <<ProxyAuthorizationHeader(basicAuthString),
               AuthorizationHeader(basicAuthString)>>
        ELSE <<>>)
    \o <<AcceptHeader, <<>>>>

\* C6: the request a call writes, no other call having started, is the
\* protocol line, Host, User-Agent, the extra header lines, the two
\* authorization headers exactly when a login is configured, Accept and the
\* blank line, in this order.
C6_RequestOrder ==
  \A c \in DOMAIN call :
    (/\ call[c].sent # <<>>
     /\ \A d \in DOMAIN call \ {c} : call[d].pc = "connect")
      => call[c].sent = ClaimedRequest(c)

\* C7: under every interleaving of two calls on one client, the request a
\* call writes holds the protocol line of its own endpoint.
C7_OwnEndpointRequested ==
  \A c \in DOMAIN call :
    call[c].sent # <<>> =>
      \E i \in DOMAIN call[c].sent :
        call[c].sent[i] = RequestProtocol(call[c].endpoint)

\* a semantic discard of an endpoint's grammar: a line ending in a bare colon
\* (service times, info), an info line whose key is Start_Time or Current_Time
IsDiscard(endpoint, ln) ==
  \/ /\ endpoint \in {"service_times", "info"}
     /\ HasSuffix(ln, <<":", "\n">>)
  \/ /\ endpoint = "info"
     /\ Index(ln, ":") >= 0
     /\ InfoKey(TrimSpace(Slice(ln, 0, Index(ln, ":")))) \in {K_Start_Time, K_Current_Time}

\* C8: a semantic discard decodes with a nil error to the empty record, and
\* the loop iteration that received it leaves the list and the labels of
\* GetServiceTimes or GetInfos as they were.
C8_DiscardsAddNothing ==
  \A c \in DOMAIN call :
    (call[c].consumed # <<>> /\ IsDiscard(call[c].endpoint, LastConsumed(c))) =>
      /\ call[c].last = Returned(EmptyCounter)
      /\ call[c].acc = call[c].prevAcc
      /\ call[c].pc # "panicked"

\* GetInfos received a timestamp line after a line that gave a record or a label
C8_Witness ==
  \E c \in DOMAIN call :
    /\ call[c].endpoint = "info"
    /\ Len(call[c].consumed) = 2
    /\ LastConsumed(c) \in {Terminate(S_StartTime \o <<":", " ", "b">>),
                            Terminate(S_CurrentTime \o <<":", " ", "b">>)}
    /\ call[c].prevAcc # LoopState(<<>>, <<>>)

\* C9: every record of a returned list has a non-empty Key.
C9_ReturnedKeysNonEmpty ==
  \A c \in DOMAIN call :
    call[c].ret.done =>
      \A i \in DOMAIN call[c].ret.records : call[c].ret.records[i].Key # <<>>

\* GetServiceTimes returned a record although it received "(): 1", whose key
\* normalises to the empty string
C9_Witness ==
  \E c \in DOMAIN call :
    /\ call[c].ret.done
    /\ call[c].endpoint = "service_times"
    /\ \E i \in DOMAIN call[c].consumed :
         call[c].consumed[i] = <<"(", ")", ":", " ", "1", "\n">>
    /\ Len(call[c].ret.records) = 1

\* C10: a record GetInfos returns has no labels, or it has labels and the
\* Value 1; a record GetCounters or GetServiceTimes returns has no labels.
C10_RecordModes ==
  \A c \in DOMAIN call :
    call[c].ret.done =>
      \A i \in DOMAIN call[c].ret.records :
        \/ call[c].ret.records[i].VarLabels = <<>>
        \/ /\ call[c].endpoint = "info"
           /\ call[c].ret.records[i].Value = Num(1)

\* GetInfos returned a scalar record and the labelled record squid_info
C10_Witness ==
  \E c \in DOMAIN call :
    /\ call[c].ret.done
    /\ call[c].endpoint = "info"
    /\ Len(call[c].ret.records) = 2
    /\ call[c].ret.records[1].VarLabels = <<>>
    /\ call[c].ret.records[2].Key = K_squid_info
    /\ Len(call[c].ret.records[2].VarLabels) = 1

\* an info line of the dual-window shape, 'k: 5min: x%, 60min: y%'
DualWindowLine(k, x, y) ==
  k \o <<":", " ">> \o T_5min \o <<" ">> \o x \o <<"%", ",", " ">>
    \o T_60min \o <<" ">> \o y \o <<"%", "\n">>

\* the record of one half of a dual-window line, none if the value is no float
DualWindowHalf(k, label, x) ==
  IF ParseFloat(x).ok
  THEN <<Counter(k \o <<"_">> \o label, ParseFloat(x).val, <<>>)>>
  ELSE <<>>

\* C11: the iteration of GetInfos that received 'k: 5min: x%, 60min: y%'
\* appended k_5min with value x, then k_60min with value y, each only if its
\* value is a float, and nothing else.
C11_DualWindowSplit ==
  \A c \in DOMAIN call :
    (call[c].endpoint = "info" /\ call[c].consumed # <<>>) =>
      \A x \in {<<"1">>, <<"2">>, <<"b">>}, y \in {<<"1">>, <<"2">>, <<"b">>} :
        LastConsumed(c) = DualWindowLine(<<"a">>, x, y) =>
          /\ call[c].acc.list = call[c].prevAcc.list
                                  \o DualWindowHalf(<<"a">>, <<"5", "m", "i", "n">>, x)
                                  \o DualWindowHalf(<<"a">>, <<"6", "0", "m", "i", "n">>, y)
          /\ call[c].acc.labels = call[c].prevAcc.labels
          /\ call[c].pc # "panicked"

\* GetInfos returned a_5min = 1 and a_60min = 2 for one line, and only
\* a_60min = 2 for a line whose 5min value is no float
C11_Witness ==
  \E c \in DOMAIN call :
    /\ call[c].ret.done
    /\ call[c].consumed = << DualWindowLine(<<"a">>, <<"1">>, <<"2">>),
                             DualWindowLine(<<"a">>, <<"b">>, <<"2">>) >>
    /\ call[c].endpoint = "info"
    /\ call[c].ret.records =
         << Counter(<<"a", "_", "5", "m", "i", "n">>, Num(1), <<>>),
            Counter(<<"a", "_", "6", "0", "m", "i", "n">>, Num(2), <<>>),
            Counter(<<"a", "_", "6", "0", "m", "i", "n">>, Num(2), <<>>) >>

\* an identity line of the info grammar
IsIdentityLine(ln) ==
  /\ ~HasSuffix(ln, <<":", "\n">>)
  /\ Index(ln, ":") >= 0
  /\ InfoKey(TrimSpace(Slice(ln, 0, Index(ln, ":"))))
       \in {K_Squid_Object_Cache, K_Build_Info, K_Service_Name}

\* C12: the iteration of GetInfos that received an identity line added one
\* label to the composite record and no record to the list; the returned
\* list is the list of the loop followed by the composite record (squid_info,
\* Value 1, the labels in line order) exactly when a label was added.
C12_IdentityLinesFoldIntoComposite ==
  \A c \in DOMAIN call :
    call[c].endpoint = "info" =>
      /\ (call[c].consumed # <<>> /\ IsIdentityLine(LastConsumed(c))) =>
           /\ call[c].pc # "panicked"
           /\ call[c].acc.list = call[c].prevAcc.list
           /\ Len(call[c].acc.labels) = Len(call[c].prevAcc.labels) + 1
           /\ SubSeq(call[c].acc.labels, 1, Len(call[c].prevAcc.labels))
                = call[c].prevAcc.labels
      /\ call[c].ret.done =>
           call[c].ret.records =
             call[c].acc.list
               \o (IF call[c].acc.labels # <<>>
                   THEN <<Counter(K_squid_info, Num(1), call[c].acc.labels)>>
                   ELSE <<>>)

\* the claimed outcome of decodeCounterStrings on a line
CounterLineOutcome(ln) ==
  IF /\ Index(ln, "=") >= 0
     /\ TrimSpace(Slice(ln, 0, Index(ln, "="))) # <<>>
     /\ ParseFloat(Split(TrimSpace(SliceFrom(ln, Index(ln, "=") + 1)), " ")[1]).ok
  THEN Returned(Counter(TrimSpace(Slice(ln, 0, Index(ln, "="))),
                        ParseFloat(Split(TrimSpace(SliceFrom(ln, Index(ln, "=") + 1)),
                                         " ")[1]).val,
                        <<>>))
  ELSE Failed

\* C13: decodeCounterStrings returns the record (trimmed text before the
\* first '=', the float of the first token after it) exactly when the line
\* has a '=', that text is non-empty and the token is a float; otherwise it
\* returns an error and the empty record.
C13_CounterDecodeExact ==
  dGrammar = "counters" => dOut = CounterLineOutcome(dLine)

\* decodeCounterStrings returned a record for a line with a value and a unit
C13_Witness ==
  /\ dGrammar = "counters"
  /\ dLine = <<"a", " ", "b", " ", "=", " ", "1", "0", " ", "K", "B", "\n">>
  /\ dOut = Returned(Counter(<<"a", " ", "b">>, Num(10), <<>>))

\* C14: a finished Collect has sent exactly one metric, the up gauge, with
\* value 1 if GetCounters returned a nil error and 0 if it returned an error.
C14_CollectEmitsUp ==
  sc.done =>
    /\ call[1].ret.done
    /\ sc.ch = <<UpMetric(IF call[1].ret.err = NoError THEN 1 ELSE 0)>>
    /\ sc.up = (IF call[1].ret.err = NoError THEN 1 ELSE 0)

\* Collect finished after its GetCounters call failed to connect
C14_Witness ==
  /\ sc.done
  /\ call[1].ret.err.kind = "connect"
  /\ sc.ch = <<UpMetric(0)>>

\* the Get calls that returned nil
Granted == {i \in DOMAIN rl.results : rl.results[i].ret = "nil"}

\* C15: a new RateLimiter of bucket size n holds n tokens: of the Get calls
\* made before the first tick (and before Stop), exactly the first n
\* returned nil and the others ErrRateLimited; Get is a single step that can
\* always be taken.
C15_BucketStartsFull ==
  rl.err = "nil" =>
    /\ \A i \in DOMAIN rl.results :
         (rl.results[i].ticks = 0 /\ rl.results[i].stop = "none") =>
           (rl.results[i].ret = "nil" <=> i <= rl.size)
    /\ (rl.refill # "panicked" /\ Len(rl.results) < MaxGets) => ENABLED Get

\* a limiter of size 2 answered nil, nil, ErrRateLimited before any tick
C15_Witness ==
  /\ rl.err = "nil"
  /\ rl.size = 2
  /\ Len(rl.results) = 3
  /\ rl.results[3].ticks = 0
  /\ rl.results[3].stop = "none"
  /\ rl.results[3].ret = "ErrRateLimited"
  /\ rl.results[2].ret = "nil"

C17_GetAfterStopIsLimited ==
  \A i \in DOMAIN rl.results :
    rl.results[i].stop = "returned" => rl.results[i].ret = "ErrRateLimited"

\* Stop was called on a bucket that held tokens, returned, and a Get followed
C17_Witness ==
  /\ rl.atStop > 0
  /\ \E i \in DOMAIN rl.results :
       /\ rl.results[i].stop = "returned"
       /\ rl.results[i].ret = "ErrRateLimited"

\* C18: a new monitor is not running; after a Start call it is running and
\* after a Stop call it is not; Start on a running monitor and Stop on a
\* stopped monitor leave the monitor as it was.
C18_StartStopRunning ==
  /\ mon.last.op = "New" => ~mon.running
  /\ mon.last.op = "Start" => mon.running
  /\ mon.last.op = "Stop" => ~mon.running
  /\ (mon.last.op = "Start" /\ mon.last.before.running) =>
       MonitorSnapshot(mon) = mon.last.before
  /\ (mon.last.op = "Stop" /\ ~mon.last.before.running) =>
       MonitorSnapshot(mon) = mon.last.before

\* the file differs from the recorded state
FileDiffers(file, rec) == file.mod # rec.mod \/ file.size # rec.size

\* C19: after a loop handled a tick at which the file's modification time or
\* size differed from the recorded state, a notification is on the refresh
\* channel and the recorded state is the file's; after a tick at which the
\* file was as recorded, or could not be stat'ed, the refresh channel and the
\* recorded state are what they were.
C19_TickSignalsChange ==
  mon.tick.seen =>
    IF mon.tick.file.ok /\ FileDiffers(mon.tick.file, mon.tick.recBefore)
    THEN /\ mon.tick.refreshAfter = 1
         /\ mon.tick.recAfter = [mod |-> mon.tick.file.mod, size |-> mon.tick.file.size]
    ELSE /\ mon.tick.refreshAfter = mon.tick.refreshBefore
         /\ mon.tick.recAfter = mon.tick.recBefore

\* a tick found only the size changed and signalled on the empty channel
C19_Witness ==
  /\ mon.tick.seen
  /\ mon.tick.file.ok
  /\ mon.tick.file.mod = mon.tick.recBefore.mod
  /\ mon.tick.file.size # mon.tick.recBefore.size
  /\ mon.tick.refreshBefore = 0
  /\ mon.tick.refreshAfter = 1

\* C20: after a Collect whose scan found the directory missing or unreadable,
\* scan_success is 0 and is the only metric sent; after a Collect whose scan
\* found a readable directory, scan_success is 1 and is among the metrics sent.
C20_ScanSuccessReflectsScan ==
  cfc.collected =>
    IF cfc.scanned.state # "ok"
    THEN /\ cfc.scanSuccess = 0
         /\ cfc.ch = <<Metric("squid_config_scan_success", 0, <<>>)>>
    ELSE /\ cfc.scanSuccess = 1
         /\ \E i \in DOMAIN cfc.ch : cfc.ch[i] = Metric("squid_config_scan_success", 1, <<>>)

\* C21: readLines closes the lines channel at most once, has closed it exactly
\* once when it has exited, and holds no line to send after closing; once
\* the Get* call ranges over the channel, the producer eventually closes the
\* channel and the loop ends with the call returning.
C21_ChannelClosedLoopEnds ==
  /\ [](/\ call[1].closes <= 1
        /\ call[1].prod = "done" => (call[1].closes = 1 /\ call[1].held = <<>>))
  /\ (call[1].pc = "range") ~> (call[1].prod = "done" /\ call[1].pc = "returned")

\* the lines of a body as the claim has them: the k-th runs from after the
\* (k-1)-th newline up to and including the k-th
NthNewline(data, k) ==
  CHOOSE i \in 1..Len(data) :
    /\ data[i] = "\n"
    /\ Cardinality({j \in 1..i : data[j] = "\n"}) = k

ClaimedLines(data) ==
  [k \in 1..Cardinality({i \in 1..Len(data) : data[i] = "\n"}) |->
     SubSeq(data, IF k = 1 THEN 1 ELSE NthNewline(data, k - 1) + 1,
            NthNewline(data, k))]

\* C22: what the consumer has received is at every moment the first so many
\* newline-terminated lines of the body, in order and with their terminators;
\* the line readLines is sending is the next one; and when readLines has
\* closed the channel the consumer has received all of them and nothing
\* else: no unterminated rest, and nothing from an empty body.
C22_LinesDelivered ==
  call[1].status = 200 =>
    /\ Len(call[1].consumed) <= Len(ClaimedLines(call[1].body))
    /\ \A i \in DOMAIN call[1].consumed :
         call[1].consumed[i] = ClaimedLines(call[1].body)[i]
    /\ call[1].prod = "send" =>
         /\ Len(call[1].consumed) < Len(ClaimedLines(call[1].body))
         /\ call[1].held = ClaimedLines(call[1].body)[Len(call[1].consumed) + 1]
    /\ call[1].prod = "done" => call[1].consumed = ClaimedLines(call[1].body)

\* readLines closed the channel after two lines of a body that ends in an
\* unterminated rest
C22_Witness ==
  /\ call[1].status = 200
  /\ call[1].prod = "done"
  /\ Len(call[1].consumed) = 2
  /\ call[1].body # <<>>
  /\ call[1].body[Len(call[1].body)] # "\n"

\* the key of a line as the claim has it: the text before the first colon,
\* trimmed and normalised for the grammar
LineKey(grammar, ln) ==
  IF grammar = "info"
  THEN InfoKey(TrimSpace(Slice(ln, 0, Index(ln, ":"))))
  ELSE ServiceTimeKey(TrimSpace(Slice(ln, 0, Index(ln, ":"))))

\* C23: on a line that is neither a header line nor a timestamp discard,
\* decodeServiceTimeStrings and decodeInfoStrings return an error when the
\* line has a colon and its key is empty, also when it is empty only after
\* normalisation; and they never return a nil error with an empty Key.
C23_EmptyKeyIsError ==
  (dGrammar \in {"service_times", "info"} /\ ~IsDiscard(dGrammar, dLine)) =>
    /\ (Index(dLine, ":") >= 0 /\ LineKey(dGrammar, dLine) = <<>>) => dOut.kind = "err"
    /\ dOut.kind = "ok" => dOut.c.Key # <<>>

\* C24: a Get* call that has returned either started no producer (it
\* returned the error of readFromSquid) or its producer has closed the
\* channel and ended; while the call is in its loop its one producer is
\* reading, sending or done; and while the producer runs, the lines received,
\* the line it is sending (none while it reads, exactly one line while it
\* sends) and the unread rest of the stream make up the body.
C24_ProducerEndsWithCall ==
  \A c \in DOMAIN call :
    /\ call[c].pc = "returned" =>
         /\ call[c].prod \in {"none", "done"}
         /\ call[c].prod = "none" <=> call[c].ret.err # NoError
         /\ call[c].prod = "done" => call[c].closes = 1
    /\ call[c].pc = "range" => call[c].prod \in {"read", "send", "done"}
    /\ call[c].prod = "none" => call[c].consumed = <<>>
    /\ call[c].prod \in {"read", "send"} =>
         /\ Concat(call[c].consumed) \o call[c].held \o call[c].stream = call[c].body
         /\ call[c].prod = "read" => call[c].held = <<>>
         /\ call[c].prod = "send" =>
              {i \in 1..Len(call[c].held) : call[c].held[i] = "\n"} = {Len(call[c].held)}

\* a call returned from its loop after two lines, its producer having ended
C24_Witness ==
  /\ call[1].pc = "returned"
  /\ call[1].ret.err = NoError
  /\ call[1].prod = "done"
  /\ call[1].closes = 1
  /\ Len(call[1].consumed) = 2

\* C25: in every state of a RateLimiter of bucket size n, whatever the order
\* of Get calls, ticks and refills (and of the steps of Stop), the bucket
\* holds between 0 and n tokens and the Get calls that returned nil are at
\* most n plus the ticks that have occurred.
C25_TokensBounded ==
  rl.err = "nil" =>
    /\ 0 <= rl.tokens
    /\ rl.tokens <= rl.size
    /\ Cardinality(Granted) <= rl.size + rl.ticks

\* every token was taken: the Get calls that returned nil are the bucket size
\* plus the ticks, of which there were at least two
C25_Witness ==
  /\ rl.err = "nil"
  /\ rl.ticks >= 2
  /\ rl.tokens = 0
  /\ Cardinality(Granted) = rl.size + rl.ticks

\* C26: the refill goroutine never sends on the tokens channel once Stop has
\* closed it, and no Get called after the close returns nil.
C26_ClosedChannelUnused ==
  /\ rl.refill # "panicked"
  /\ \A i \in DOMAIN rl.results :
       rl.results[i].closed => rl.results[i].ret = "ErrRateLimited"

\* C27: no Start or Stop call closes the stop channel when it is closed
\* already.
C27_StopChannelClosedOnce == ~mon.panicked

\* the monitor loops that have been started and have not returned
ActiveLoops == {i \in DOMAIN mon.loop : mon.loop[i] \in {"init", "select"}}

\* every started loop has either returned or waits in its select with the
\* stop channel open: no loop is about to start or about to see the close
LoopsSettled ==
  \A i \in DOMAIN mon.loop :
    \/ mon.loop[i] \in {"none", "exited"}
    \/ mon.loop[i] = "select" /\ ~mon.stopClosed

\* C28: at most one monitor loop is active once the loops have settled after
\* the calls made so far, and then the running flag is true exactly when one
\* loop is active, waiting for ticks.
C28_RunningIffOneLoop ==
  LoopsSettled =>
    /\ Cardinality(ActiveLoops) <= 1
    /\ mon.running <=> Cardinality(ActiveLoops) = 1

====
